---- MODULE Spec2Model ----
(***************************************************************************)
(* A model of the adaptive-ingestion pipeline of Diver202/Acid-Trippers:   *)
(*   normalizer.py  FieldNormalizer  (canonical name resolver)             *)
(*   analyzer.py    DataAnalyzer     (field profiler)                      *)
(*   classifier.py  Classifier       (placement rule cascade)              *)
(*                                                                         *)
(* Python strings are sequences of one-character strings, so that the      *)
(* code's lower(), regular expressions, substring tests and sort order     *)
(* are computed character by character.  Python floats that are quotients  *)
(* of two counts are exact rationals <<n, d>> in lowest terms: for counts  *)
(* of this size a correctly rounded quotient equals a decimal literal      *)
(* exactly when the rationals are equal, and is ordered like them.         *)
(***************************************************************************)
EXTENDS Integers, Sequences, FiniteSets, Bags, TLC

VARIABLES
    total_records,    \* DataAnalyzer.total_records
    field_counts,     \* DataAnalyzer.field_counts    : defaultdict(int)
    field_types,      \* DataAnalyzer.field_types     : field -> {type: count}
    field_values,     \* DataAnalyzer.field_values    : defaultdict(set)
    nested_fields,    \* DataAnalyzer.nested_fields   : set
    array_fields,     \* DataAnalyzer.array_fields    : set
    pattern_matches,  \* DataAnalyzer.pattern_matches : field -> {pattern: count}
    observed,         \* history: field -> the values analyze_record was given for it
    ingested,         \* history: the bag of raw records passed through the pipeline
    snapshot,         \* <<the last value export_state returned>>, <<>> before
    config,           \* Classifier.config
    classifications,  \* Classifier.classifications
    field_analyses,   \* the argument of the last classify_all_fields call
    superseded,       \* history: the field names of the decision set the last call replaced
    canonical_map,    \* FieldNormalizer.canonical_map
    variations,       \* FieldNormalizer.variations
    returned,         \* history: raw name -> canonical name first returned for it
    compared,         \* <<name1, name2>>, then <<name1, name2, _is_similar(name1, name2)>>
    exported,         \* <<the last value export_mappings returned, history: its content then>>
    replica,          \* a second FieldNormalizer, with the history of the names it returned
    renamed,          \* <<record, renamed_record, name_mapping>> of the last normalize_record call kept
    in_progress,      \* the analyze_record call being run in steps: its record, the keys left to fold
    accepted,         \* history: the key sets of the records analyze_record was entered with in steps
    view,             \* the get_all_fields_analysis call being run in steps
    stream            \* the stream_records generator: its arguments, locals and position

analyzerVars == <<total_records, field_counts, field_types, field_values,
                  nested_fields, array_fields, pattern_matches>>
checkpointVars == <<snapshot>>
classifierVars == <<config, classifications, field_analyses, superseded>>
resolverVars == <<canonical_map, variations, returned, compared, exported, replica, renamed>>
callVars == <<in_progress, accepted, view>>
vars == <<analyzerVars, observed, ingested, checkpointVars, classifierVars, resolverVars,
          callVars, stream>>

----------------------------------------------------------------------------
(* Bounds of the model *)

\* analyze_record is called at most this many times in the profiler runs
MaxRecords == 4
\* ... and at most this many times in the checkpoint runs
MaxCheckpointRecords == 2

----------------------------------------------------------------------------
(* Characters and strings *)

Digits == <<"0", "1", "2", "3", "4", "5", "6", "7", "8", "9">>
Uppers == <<"A", "B", "C", "D", "E", "F", "G", "H", "I", "J", "K", "L", "M",
            "N", "O", "P", "Q", "R", "S", "T", "U", "V", "W", "X", "Y", "Z">>
Lowers == <<"a", "b", "c", "d", "e", "f", "g", "h", "i", "j", "k", "l", "m",
            "n", "o", "p", "q", "r", "s", "t", "u", "v", "w", "x", "y", "z">>
\* the characters of the model in ascending code point order
CodePoints == <<" ", "%", "+", "-", ".", "/">> \o Digits \o <<":", "@">>
              \o Uppers \o <<"_">> \o Lowers

Range(s) == {s[i] : i \in 1..Len(s)}
IsDigit(c) == c \in Range(Digits)
IsUpper(c) == c \in Range(Uppers)
IsLower(c) == c \in Range(Lowers)
Ord(c) == CHOOSE i \in 1..Len(CodePoints) : CodePoints[i] = c

\* str.lower() of one character and of a string
lower(s) ==
    LET LowerChar(c) ==
            IF IsUpper(c) THEN Lowers[CHOOSE i \in 1..26 : Uppers[i] = c] ELSE c
    IN  [i \in 1..Len(s) |-> LowerChar(s[i])]

\* Python's str < str: lexicographic by code point, a proper prefix first
StrLess(s, t) ==
    \E i \in 1..(Len(t)) :
        /\ \A j \in 1..(i - 1) : j <= Len(s) /\ s[j] = t[j]
        /\ \/ i = Len(s) + 1
           \/ i <= Len(s) /\ Ord(s[i]) < Ord(t[i])

\* sorted(S) for a finite set of strings
RECURSIVE sorted(_)
sorted(S) ==
    IF S = {} THEN <<>>
    ELSE LET m == CHOOSE x \in S : \A y \in S \ {x} : StrLess(x, y)
         IN <<m>> \o sorted(S \ {m})

\* s[i..j], empty when i > j
Slice(s, i, j) == IF i > j THEN <<>> ELSE SubSeq(s, i, j)
\* needle in haystack
Contains(hay, needle) ==
    \E i \in 1..(Len(hay) - Len(needle) + 1) :
        Slice(hay, i, i + Len(needle) - 1) = needle
AllChars(s, i, j, chars) == \A k \in i..j : s[k] \in chars

----------------------------------------------------------------------------
(* Floats that are quotients of counts *)

RECURSIVE Gcd(_, _)
Gcd(a, b) == IF b = 0 THEN a ELSE Gcd(b, a % b)
\* n / d in lowest terms (d > 0, n >= 0)
Rat(n, d) == LET g == Gcd(n, d) IN <<n \div g, d \div g>>
RatLess(a, b) == a[1] * b[2] < b[1] * a[2]
RatGeq(a, b) == ~RatLess(a, b)
RatMin(a, b) == IF RatLess(b, a) THEN b ELSE a
Zero == Rat(0, 1)
One == Rat(1, 1)

----------------------------------------------------------------------------
(* Python dicts.  A dict whose iteration order the code reads is a sequence *)
(* of <<key, value>> pairs in insertion order; a dict that is only indexed  *)
(* or sorted is a function.                                                 *)

DictHas(d, k) == \E i \in 1..Len(d) : d[i][1] = k
DictIdx(d, k) == CHOOSE i \in 1..Len(d) : d[i][1] = k
DictGet(d, k, default) == IF DictHas(d, k) THEN d[DictIdx(d, k)][2] ELSE default
\* d[k] = v: a present key keeps its position, a new key is appended
DictSet(d, k, v) ==
    IF DictHas(d, k) THEN [d EXCEPT ![DictIdx(d, k)] = <<k, v>>]
    ELSE Append(d, <<k, v>>)
DictKeys(d) == {d[i][1] : i \in 1..Len(d)}
DictValues(d) == [i \in 1..Len(d) |-> d[i][2]]
RECURSIVE SumValues(_)
SumValues(d) == IF d = <<>> THEN 0 ELSE d[1][2] + SumValues(Tail(d))
\* the last item with the largest value
MaxItem_last(d) ==
    d[CHOOSE i \in 1..Len(d) :
        /\ \A j \in 1..Len(d) : d[j][2] <= d[i][2]
        /\ \A j \in (i + 1)..Len(d) : d[j][2] < d[i][2]]
\* max(d.items(), key=lambda x: x[1]): the first item with the largest value
MaxItem(d) ==
    d[CHOOSE i \in 1..Len(d) :
        /\ \A j \in 1..Len(d) : d[j][2] <= d[i][2]
        /\ \A j \in 1..(i - 1) : d[j][2] < d[i][2]]

EmptyDict == <<>>
FnGet(f, k, default) == IF k \in DOMAIN f THEN f[k] ELSE default
FnSet(f, k, v) == [x \in (DOMAIN f) \cup {k} |-> IF x = k THEN v ELSE f[x]]

----------------------------------------------------------------------------
(* Python values.  A value is a record with one field, named by its runtime *)
(* class and holding its payload; the contents of a list or a dict are     *)
(* never read by the code.                                                 *)

PyNone == [NoneType |-> 0]
PyBool(b) == [bool |-> b]
PyInt(n) == [int |-> n]
PyStr(s) == [str |-> s]
PyList == [list |-> 0]
PyDict == [dict |-> 0]

\* type(value).__name__
type_name_of(value) == CHOOSE c \in DOMAIN value : TRUE

\* isinstance(value, cls): bool is a subclass of int
isinstance(value, cls) ==
    type_name_of(value) = cls \/ (cls = "int" /\ type_name_of(value) = "bool")

RECURSIVE NatStr(_)
NatStr(n) ==
    IF n < 10 THEN <<Digits[n + 1]>>
    ELSE NatStr(n \div 10) \o <<Digits[(n % 10) + 1]>>

\* str(value) of a scalar
str(value) ==
    LET IntStr(n) == IF n < 0 THEN <<"-">> \o NatStr(-n) ELSE NatStr(n)
    IN
    CASE type_name_of(value) = "NoneType" -> <<"N", "o", "n", "e">>
      [] type_name_of(value) = "bool" ->
            IF value.bool THEN <<"T", "r", "u", "e">> ELSE <<"F", "a", "l", "s", "e">>
      [] type_name_of(value) = "int" -> IntStr(value.int)
      [] type_name_of(value) = "float" -> IntStr(value.float) \o <<".", "0">>
      [] type_name_of(value) = "str" -> value.str

----------------------------------------------------------------------------
(* analyzer.py: DataAnalyzer *)

\* self.value_count_limit (10000 in the source, scaled down)
value_count_limit == 3

\* __init__
NewAnalyzer ==
    [total_records |-> 0,
     field_counts |-> <<>>,
     field_types |-> <<>>,
     field_values |-> <<>>,
     nested_fields |-> {},
     array_fields |-> {},
     pattern_matches |-> <<>>]

_get_type_name(value) ==
    IF type_name_of(value) = "NoneType" THEN "null"
    ELSE IF isinstance(value, "bool") THEN "boolean"
    ELSE IF isinstance(value, "int") THEN "integer"
    ELSE IF isinstance(value, "float") THEN "float"
    ELSE IF isinstance(value, "str") THEN "string"
    ELSE IF isinstance(value, "list") THEN "array"
    ELSE IF isinstance(value, "dict") THEN "object"
    ELSE type_name_of(value)

\* s[i..] is \d{1,3} followed by `rest` more groups \.\d{1,3} and the end
RECURSIVE IpGroups(_, _, _)
IpGroups(s, i, rest) ==
    \E n \in 1..3 :
        /\ i + n - 1 <= Len(s)
        /\ AllChars(s, i, i + n - 1, Range(Digits))
        /\ IF rest = 0 THEN i + n - 1 = Len(s)
           ELSE /\ i + n <= Len(s)
                /\ s[i + n] = "."
                /\ IpGroups(s, i + n + 1, rest - 1)

\* ^\d{1,3}\.\d{1,3}\.\d{1,3}\.\d{1,3}$
MatchIpAddress(s) == IpGroups(s, 1, 3)

\* ^[a-zA-Z0-9._%+-]+@[a-zA-Z0-9.-]+\.[a-zA-Z]{2,}$
MatchEmail(s) ==
    LET EmailLocalChars ==
            Range(Uppers) \cup Range(Lowers) \cup Range(Digits)
                \cup {".", "_", "%", "+", "-"}
        EmailDomainChars ==
            Range(Uppers) \cup Range(Lowers) \cup Range(Digits) \cup {".", "-"}
    IN
    \E at \in 2..Len(s) : \E dot \in (at + 2)..Len(s) :
        /\ s[at] = "@"
        /\ AllChars(s, 1, at - 1, EmailLocalChars)
        /\ AllChars(s, at + 1, dot - 1, EmailDomainChars)
        /\ s[dot] = "."
        /\ Len(s) - dot >= 2
        /\ AllChars(s, dot + 1, Len(s), Range(Uppers) \cup Range(Lowers))

\* ^https?://
MatchUrl(s) ==
    LET StartsWith(p) == Len(p) <= Len(s) /\ Slice(s, 1, Len(p)) = p
    IN  \/ StartsWith(<<"h", "t", "t", "p", ":", "/", "/">>)
        \/ StartsWith(<<"h", "t", "t", "p", "s", ":", "/", "/">>)

\* ^[a-f0-9]{8}-[a-f0-9]{4}-[a-f0-9]{4}-[a-f0-9]{4}-[a-f0-9]{12}$ with re.I
MatchUuid(s) ==
    LET IsHex(c) ==
            IsDigit(c) \/ c \in {"a", "b", "c", "d", "e", "f", "A", "B", "C", "D", "E", "F"}
    IN  /\ Len(s) = 36
        /\ \A i \in 1..36 :
            IF i \in {9, 14, 19, 24} THEN s[i] = "-" ELSE IsHex(s[i])

\* ^\d{4}-\d{2}-\d{2}[T\s]\d{2}:\d{2}:\d{2}
MatchIsoTimestamp(s) ==
    /\ Len(s) >= 19
    /\ \A i \in 1..19 :
        CASE i \in {5, 8} -> s[i] = "-"
          [] i = 11 -> s[i] \in {"T", " "}
          [] i \in {14, 17} -> s[i] = ":"
          [] OTHER -> IsDigit(s[i])

\* self.patterns, tried in this order, the first match wins
_detect_pattern(value) ==
    IF ~isinstance(value, "str") THEN "none"
    ELSE IF MatchIpAddress(value.str) THEN "ip_address"
    ELSE IF MatchEmail(value.str) THEN "email"
    ELSE IF MatchUrl(value.str) THEN "url"
    ELSE IF MatchUuid(value.str) THEN "uuid"
    ELSE IF MatchIsoTimestamp(value.str) THEN "iso_timestamp"
    ELSE "none"

\* hist[key] += 1 on a defaultdict(int) that keeps insertion order
Increment(hist, key) == DictSet(hist, key, DictGet(hist, key, 0) + 1)

\* _analyze_value counting the type only of scalar values
_analyze_value_scalar_types(s, field_name, value) ==
    LET type_name == _get_type_name(value)
        s1 == [s EXCEPT
                 !.field_counts =
                     FnSet(@, field_name, FnGet(@, field_name, 0) + 1)]
    IN  IF isinstance(value, "dict")
        THEN [s1 EXCEPT !.nested_fields = @ \cup {field_name}]
        ELSE IF isinstance(value, "list")
        THEN [s1 EXCEPT !.array_fields = @ \cup {field_name}]
        ELSE LET values == FnGet(s1.field_values, field_name, {})
                 s2 == [s1 EXCEPT
                          !.field_types =
                              FnSet(@, field_name,
                                    Increment(FnGet(@, field_name, EmptyDict), type_name)),
                          !.field_values =
                              FnSet(@, field_name,
                                    IF Cardinality(values) < value_count_limit
                                    THEN values \cup {str(value)}
                                    ELSE values)]
                 pattern == _detect_pattern(value)
             IN  IF isinstance(value, "str") /\ pattern # "none"
                 THEN [s2 EXCEPT
                         !.pattern_matches =
                             FnSet(@, field_name,
                                   Increment(FnGet(@, field_name, EmptyDict), pattern))]
                 ELSE s2

\* _analyze_value with flags that follow the last value instead of sticking
_analyze_value_flags_follow(s, field_name, value) ==
    LET type_name == _get_type_name(value)
        s1 == [s EXCEPT
                 !.field_counts =
                     FnSet(@, field_name, FnGet(@, field_name, 0) + 1),
                 !.field_types =
                     FnSet(@, field_name,
                           Increment(FnGet(@, field_name, EmptyDict), type_name))]
    IN  IF isinstance(value, "dict")
        THEN [s1 EXCEPT !.nested_fields = @ \cup {field_name}]
        ELSE IF isinstance(value, "list")
        THEN [s1 EXCEPT !.array_fields = @ \cup {field_name}]
        ELSE LET values == FnGet(s1.field_values, field_name, {})
                 s2 == [s1 EXCEPT
                          !.nested_fields = @ \ {field_name},
                          !.array_fields = @ \ {field_name},
                          !.field_values =
                              FnSet(@, field_name,
                                    IF Cardinality(values) < value_count_limit
                                    THEN values \cup {str(value)}
                                    ELSE values)]
                 pattern == _detect_pattern(value)
             IN  IF isinstance(value, "str") /\ pattern # "none"
                 THEN [s2 EXCEPT
                         !.pattern_matches =
                             FnSet(@, field_name,
                                   Increment(FnGet(@, field_name, EmptyDict), pattern))]
                 ELSE s2

\* _analyze_value emptying the unique values of a field that holds an object
_analyze_value_resets_values(s, field_name, value) ==
    LET type_name == _get_type_name(value)
        s1 == [s EXCEPT
                 !.field_counts =
                     FnSet(@, field_name, FnGet(@, field_name, 0) + 1),
                 !.field_types =
                     FnSet(@, field_name,
                           Increment(FnGet(@, field_name, EmptyDict), type_name))]
    IN  IF isinstance(value, "dict")
        THEN [s1 EXCEPT !.nested_fields = @ \cup {field_name},
                        !.field_values = FnSet(@, field_name, {})]
        ELSE IF isinstance(value, "list")
        THEN [s1 EXCEPT !.array_fields = @ \cup {field_name}]
        ELSE LET values == FnGet(s1.field_values, field_name, {})
                 s2 == [s1 EXCEPT
                          !.field_values =
                              FnSet(@, field_name,
                                    IF Cardinality(values) < value_count_limit
                                    THEN values \cup {str(value)}
                                    ELSE values)]
                 pattern == _detect_pattern(value)
             IN  IF isinstance(value, "str") /\ pattern # "none"
                 THEN [s2 EXCEPT
                         !.pattern_matches =
                             FnSet(@, field_name,
                                   Increment(FnGet(@, field_name, EmptyDict), pattern))]
                 ELSE s2

_analyze_value(s, field_name, value) ==
    LET type_name == _get_type_name(value)
        s1 == [s EXCEPT
                 !.field_counts =
                     FnSet(@, field_name, FnGet(@, field_name, 0) + 1),
                 !.field_types =
                     FnSet(@, field_name,
                           Increment(FnGet(@, field_name, EmptyDict), type_name))]
    IN  IF isinstance(value, "dict")
        THEN [s1 EXCEPT !.nested_fields = @ \cup {field_name}]
        ELSE IF isinstance(value, "list")
        THEN [s1 EXCEPT !.array_fields = @ \cup {field_name}]
        ELSE LET values == FnGet(s1.field_values, field_name, {})
                 s2 == [s1 EXCEPT
                          !.field_values =
                              FnSet(@, field_name,
                                    IF Cardinality(values) < value_count_limit
                                    THEN values \cup {str(value)}
                                    ELSE values)]
                 pattern == _detect_pattern(value)
             IN  IF isinstance(value, "str") /\ pattern # "none"
                 THEN [s2 EXCEPT
                         !.pattern_matches =
                             FnSet(@, field_name,
                                   Increment(FnGet(@, field_name, EmptyDict), pattern))]
                 ELSE s2

\* the loop of analyze_record over record.items(); the per-field updates of
\* distinct keys commute, so the order of the items is not observable
RECURSIVE AnalyzeItems(_, _, _)
AnalyzeItems(s, record, keys) ==
    IF keys = {} THEN s
    ELSE LET field_name == CHOOSE k \in keys : TRUE
         IN  AnalyzeItems(_analyze_value(s, field_name, record[field_name]),
                          record, keys \ {field_name})

\* analyze_record that leaves total_records as it is
analyze_record_counting_fields(s, record) == AnalyzeItems(s, record, DOMAIN record)

analyze_record(s, record) ==
    AnalyzeItems([s EXCEPT !.total_records = @ + 1], record, DOMAIN record)

\* reading d[k] on a defaultdict inserts the default under a missing key
Touch(d, k, default) == IF k \in DOMAIN d THEN d ELSE FnSet(d, k, default)

\* Each query is [ret |-> the value returned, s |-> the analyzer afterwards].
get_field_frequency(s, field_name) ==
    IF s.total_records = 0 THEN [ret |-> Zero, s |-> s]
    ELSE [ret |-> Rat(FnGet(s.field_counts, field_name, 0), s.total_records),
          s |-> [s EXCEPT !.field_counts = Touch(@, field_name, 0)]]

get_type_stability(s, field_name) ==
    IF field_name \notin DOMAIN s.field_types
    THEN [ret |-> <<"unknown", Zero>>, s |-> s]
    ELSE LET type_counts == s.field_types[field_name]
         IN  IF type_counts = EmptyDict
             THEN [ret |-> <<"unknown", Zero>>, s |-> s]
             ELSE LET dominant_type == MaxItem(type_counts)
                      total_occurrences == SumValues(type_counts)
                      stability == IF total_occurrences > 0
                                   THEN Rat(dominant_type[2], total_occurrences)
                                   ELSE Zero
                  IN  [ret |-> <<dominant_type[1], stability>>, s |-> s]

\* get_cardinality without the saturation branch
get_cardinality_ratio_only(s, field_name) ==
    LET unique_count == Cardinality(FnGet(s.field_values, field_name, {}))
        total_count == FnGet(s.field_counts, field_name, 0)
        after == [s EXCEPT !.field_values = Touch(@, field_name, {}),
                           !.field_counts = Touch(@, field_name, 0)]
    IN  [ret |-> IF total_count = 0 THEN Zero ELSE Rat(unique_count, total_count),
         s |-> after]

get_cardinality(s, field_name) ==
    LET unique_count == Cardinality(FnGet(s.field_values, field_name, {}))
        total_count == FnGet(s.field_counts, field_name, 0)
        after == [s EXCEPT !.field_values = Touch(@, field_name, {}),
                           !.field_counts = Touch(@, field_name, 0)]
    IN  [ret |-> IF total_count = 0 THEN Zero
                 ELSE IF unique_count >= value_count_limit THEN One
                 ELSE Rat(unique_count, total_count),
         s |-> after]

is_nested(s, field_name) == field_name \in s.nested_fields
is_array(s, field_name) == field_name \in s.array_fields

get_dominant_pattern(s, field_name) ==
    IF field_name \notin DOMAIN s.pattern_matches THEN [ret |-> "none", s |-> s]
    ELSE LET patterns == s.pattern_matches[field_name]
         IN  IF patterns = EmptyDict THEN [ret |-> "none", s |-> s]
             ELSE [ret |-> MaxItem(patterns)[1], s |-> s]

\* frequency_percent and type_stability_percent, two display strings that
\* are functions of frequency and type_stability, are left out of the record
get_field_analysis(s, field_name) ==
    LET frequency == get_field_frequency(s, field_name)
        stability == get_type_stability(frequency.s, field_name)
        cardinality == get_cardinality(stability.s, field_name)
        s3 == [cardinality.s EXCEPT
                 !.field_counts = Touch(@, field_name, 0),
                 !.field_types = Touch(@, field_name, EmptyDict),
                 !.field_values = Touch(@, field_name, {})]
        pattern == get_dominant_pattern(s3, field_name)
    IN  [ret |-> [field_name |-> field_name,
                  frequency |-> frequency.ret,
                  total_occurrences |-> s3.field_counts[field_name],
                  dominant_type |-> stability.ret[1],
                  type_stability |-> stability.ret[2],
                  type_distribution |-> s3.field_types[field_name],
                  cardinality |-> cardinality.ret,
                  unique_values |-> Cardinality(s3.field_values[field_name]),
                  is_nested |-> is_nested(s3, field_name),
                  is_array |-> is_array(s3, field_name),
                  dominant_pattern |-> pattern.ret],
         s |-> pattern.s]

\* the loop of get_all_fields_analysis over sorted(all_fields)
RECURSIVE AnalyzeFields(_, _)
AnalyzeFields(s, names) ==
    IF names = <<>> THEN [ret |-> <<>>, s |-> s]
    ELSE LET first == get_field_analysis(s, Head(names))
             rest == AnalyzeFields(first.s, Tail(names))
         IN  [ret |-> <<first.ret>> \o rest.ret, s |-> rest.s]

get_all_fields_analysis(s) ==
    LET all_fields == DOMAIN s.field_counts
    IN  AnalyzeFields(s, sorted(all_fields))

get_summary(s) ==
    LET fields == get_all_fields_analysis(s)
    IN  [ret |-> [total_records_analyzed |-> s.total_records,
                  total_fields_discovered |-> Cardinality(DOMAIN s.field_counts),
                  nested_fields |-> Cardinality(s.nested_fields),
                  array_fields |-> Cardinality(s.array_fields),
                  fields |-> fields.ret],
         s |-> fields.s]

\* list(a set): its elements in an order nothing reads
list(S) == sorted(S)
\* set(a list)
set(l) == Range(l)

export_state(s) ==
    [total_records |-> s.total_records,
     field_counts |-> s.field_counts,
     field_types |-> s.field_types,
     nested_fields |-> list(s.nested_fields),
     array_fields |-> list(s.array_fields),
     pattern_matches |-> s.pattern_matches]

\* field_values is neither exported nor assigned by import_state
import_state(s, state) ==
    [s EXCEPT !.total_records = state.total_records,
              !.field_counts = state.field_counts,
              !.field_types = state.field_types,
              !.nested_fields = set(state.nested_fields),
              !.array_fields = set(state.array_fields),
              !.pattern_matches = state.pattern_matches]

----------------------------------------------------------------------------
(* The profiler as a state machine *)

\* the DataAnalyzer held in the variables
self ==
    [total_records |-> total_records,
     field_counts |-> field_counts,
     field_types |-> field_types,
     field_values |-> field_values,
     nested_fields |-> nested_fields,
     array_fields |-> array_fields,
     pattern_matches |-> pattern_matches]

\* the variables become analyzer s
Becomes(s) ==
    /\ total_records' = s.total_records
    /\ field_counts' = s.field_counts
    /\ field_types' = s.field_types
    /\ field_values' = s.field_values
    /\ nested_fields' = s.nested_fields
    /\ array_fields' = s.array_fields
    /\ pattern_matches' = s.pattern_matches

\* Field names of the analyzed records ("B" < "a" by code point)
FieldNames == {<<"a">>, <<"B">>}
DottedQuad == <<"1", ".", "2", ".", "3", ".", "4">>
\* the values field "a" takes: 1 and "1", 2 and "2" have the same str()
ScalarValues ==
    {PyInt(1), PyStr(<<"1">>), PyInt(2), PyStr(<<"2">>), PyBool(TRUE),
     PyStr(DottedQuad)}
ValuesOf(field_name) ==
    IF field_name = <<"a">> THEN ScalarValues \cup {PyDict}
    ELSE {PyInt(1), PyList}
\* the records given to analyze_record: dicts from field names to values
Records ==
    UNION {{r \in [keys -> ScalarValues \cup {PyDict, PyList}] :
                \A f \in keys : r[f] \in ValuesOf(f)} : keys \in SUBSET FieldNames}

\* records of field "a" with values of three types and two patterns
TieRecords ==
    {[f \in {<<"a">>} |-> v] :
        v \in {PyInt(1), PyNone, PyStr(DottedQuad),
               PyStr(<<"h", "t", "t", "p", ":", "/", "/", "a">>)}}

AnalyzeRecord(record) ==
    /\ total_records < MaxRecords
    /\ Becomes(analyze_record(self, record))
    /\ observed' = [f \in FieldNames |->
                      IF f \in DOMAIN record THEN observed[f] \cup {record[f]}
                      ELSE observed[f]]
    /\ UNCHANGED <<stream, callVars, ingested, checkpointVars, classifierVars, resolverVars>>

Others == <<observed, ingested, checkpointVars, classifierVars, resolverVars, callVars,
           stream>>

GetFieldFrequency(field_name) ==
    Becomes(get_field_frequency(self, field_name).s) /\ UNCHANGED Others
GetTypeStability(field_name) ==
    Becomes(get_type_stability(self, field_name).s) /\ UNCHANGED Others
GetCardinality(field_name) ==
    Becomes(get_cardinality(self, field_name).s) /\ UNCHANGED Others
GetDominantPattern(field_name) ==
    Becomes(get_dominant_pattern(self, field_name).s) /\ UNCHANGED Others
GetFieldAnalysis(field_name) ==
    Becomes(get_field_analysis(self, field_name).s) /\ UNCHANGED Others
GetAllFieldsAnalysis ==
    Becomes(get_all_fields_analysis(self).s) /\ UNCHANGED Others
GetSummary ==
    Becomes(get_summary(self).s) /\ UNCHANGED Others

\* a read query of the profiler, on any field name
Query ==
    \/ \E f \in FieldNames :
        \/ GetFieldFrequency(f)
        \/ GetTypeStability(f)
        \/ GetCardinality(f)
        \/ GetDominantPattern(f)
        \/ GetFieldAnalysis(f)
    \/ GetAllFieldsAnalysis
    \/ GetSummary

\* the variables hold a DataAnalyzer()
InitAnalyzer ==
    /\ total_records = NewAnalyzer.total_records
    /\ field_counts = NewAnalyzer.field_counts
    /\ field_types = NewAnalyzer.field_types
    /\ field_values = NewAnalyzer.field_values
    /\ nested_fields = NewAnalyzer.nested_fields
    /\ array_fields = NewAnalyzer.array_fields
    /\ pattern_matches = NewAnalyzer.pattern_matches
    /\ observed = [f \in FieldNames |-> {}]
    /\ ingested = EmptyBag
    /\ in_progress = [record |-> <<>>, left |-> {}]
    /\ accepted = <<>>
    /\ view = [entered |-> FALSE, analyses |-> <<>>, todo |-> <<>>, overlapped |-> FALSE]
    /\ stream = [pc |-> "idle", total_records |-> 0, batch_size |-> 0,
                 records_fetched |-> 0, batch |-> 0, yielded |-> 0]

----------------------------------------------------------------------------
(* Checkpoints of the profiler *)

\* the records of the checkpoint runs
CheckpointRecords ==
    {r \in Records :
        \A f \in DOMAIN r : r[f] \in {PyInt(1), PyStr(DottedQuad), PyDict, PyList}}

AnalyzeRecordCk(record) ==
    /\ total_records < MaxCheckpointRecords
    /\ Becomes(analyze_record(self, record))
    /\ observed' = [f \in FieldNames |->
                      IF f \in DOMAIN record THEN observed[f] \cup {record[f]}
                      ELSE observed[f]]
    /\ UNCHANGED <<stream, callVars, ingested, checkpointVars, classifierVars, resolverVars>>

\* snapshot = analyzer.export_state()
ExportState ==
    /\ snapshot' = <<export_state(self)>>
    /\ UNCHANGED <<stream, callVars, analyzerVars, observed, ingested, classifierVars, resolverVars>>

\* analyzer.import_state(snapshot) on the live analyzer
ImportState ==
    /\ snapshot # <<>>
    /\ Becomes(import_state(self, snapshot[1]))
    /\ UNCHANGED <<stream, callVars, observed, ingested, checkpointVars, classifierVars, resolverVars>>

\* a restart: analyzer = DataAnalyzer(); analyzer.import_state(snapshot)
Restart ==
    /\ snapshot # <<>>
    /\ Becomes(import_state(NewAnalyzer, snapshot[1]))
    /\ observed' = [f \in FieldNames |-> {}]
    /\ UNCHANGED <<stream, callVars, ingested, checkpointVars, classifierVars, resolverVars>>

----------------------------------------------------------------------------
(* classifier.py: Classifier *)

SQL == "sql"
MONGODB == "mongodb"
BOTH == "both"

\* __init__: the thresholds read from the configuration, with their defaults
sql_frequency_threshold(cfg) == FnGet(cfg, "sql_frequency", Rat(80, 100))
sql_type_stability_threshold(cfg) == FnGet(cfg, "sql_type_stability", Rat(90, 100))
unique_cardinality_threshold(cfg) == FnGet(cfg, "unique_cardinality", Rat(95, 100))
sparse_threshold(cfg) == FnGet(cfg, "sparse_threshold", Rat(30, 100))

mandatory_both_fields ==
    {<<"u", "s", "e", "r", "n", "a", "m", "e">>,
     <<"s", "y", "s", "_", "i", "n", "g", "e", "s", "t", "e", "d", "_", "a", "t">>}

\* a FieldClassification; reason is the fixed part of the message
FieldClassification(a, backend, reason, confidence, is_unique) ==
    [field_name |-> a.field_name,
     backend |-> backend,
     reason |-> reason,
     confidence |-> confidence,
     frequency |-> a.frequency,
     type_stability |-> a.type_stability,
     dominant_type |-> a.dominant_type,
     is_nested |-> a.is_nested,
     is_array |-> a.is_array,
     cardinality |-> a.cardinality,
     is_unique |-> is_unique]

\* the cascade with the nested and array rules before the mandatory rule
_classify_field_nested_first(cfg, field_analysis) ==
    LET a == field_analysis
        is_unique == /\ RatGeq(a.cardinality, unique_cardinality_threshold(cfg))
                     /\ RatGeq(a.frequency, sql_frequency_threshold(cfg))
    IN  IF a.is_nested
        THEN FieldClassification(a, MONGODB, "Contains nested objects", One, FALSE)
        ELSE IF a.is_array
        THEN FieldClassification(a, MONGODB, "Contains arrays", One, FALSE)
        ELSE IF a.field_name \in mandatory_both_fields
        THEN FieldClassification(a, BOTH, "Mandatory join field", One, is_unique)
        ELSE IF RatLess(a.frequency, sparse_threshold(cfg))
        THEN FieldClassification(a, MONGODB, "Sparse field", Rat(9, 10), FALSE)
        ELSE IF RatLess(a.type_stability, sql_type_stability_threshold(cfg))
        THEN FieldClassification(a, MONGODB, "Type instability", Rat(85, 100), FALSE)
        ELSE IF /\ RatGeq(a.frequency, sql_frequency_threshold(cfg))
                /\ RatGeq(a.type_stability, sql_type_stability_threshold(cfg))
                /\ a.dominant_type \in {"string", "integer", "float", "boolean"}
        THEN FieldClassification(a, SQL, "High frequency, stable type, structured",
                                 RatMin(a.frequency, a.type_stability), is_unique)
        ELSE FieldClassification(a, MONGODB, "Ambiguous pattern", Rat(6, 10), FALSE)

\* the cascade with a SQL rule that does not look at the dominant type
_classify_field_any_type(cfg, field_analysis) ==
    LET a == field_analysis
        is_unique == /\ RatGeq(a.cardinality, unique_cardinality_threshold(cfg))
                     /\ RatGeq(a.frequency, sql_frequency_threshold(cfg))
    IN  IF a.field_name \in mandatory_both_fields
        THEN FieldClassification(a, BOTH, "Mandatory join field", One, is_unique)
        ELSE IF a.is_nested
        THEN FieldClassification(a, MONGODB, "Contains nested objects", One, FALSE)
        ELSE IF a.is_array
        THEN FieldClassification(a, MONGODB, "Contains arrays", One, FALSE)
        ELSE IF RatLess(a.frequency, sparse_threshold(cfg))
        THEN FieldClassification(a, MONGODB, "Sparse field", Rat(9, 10), FALSE)
        ELSE IF RatLess(a.type_stability, sql_type_stability_threshold(cfg))
        THEN FieldClassification(a, MONGODB, "Type instability", Rat(85, 100), FALSE)
        ELSE IF /\ RatGeq(a.frequency, sql_frequency_threshold(cfg))
                /\ RatGeq(a.type_stability, sql_type_stability_threshold(cfg))
        THEN FieldClassification(a, SQL, "High frequency, stable type, structured",
                                 RatMin(a.frequency, a.type_stability), is_unique)
        ELSE FieldClassification(a, MONGODB, "Ambiguous pattern", Rat(6, 10), FALSE)

\* the cascade with a SQL rule that does not look at the frequency
_classify_field_any_frequency(cfg, field_analysis) ==
    LET a == field_analysis
        is_unique == /\ RatGeq(a.cardinality, unique_cardinality_threshold(cfg))
                     /\ RatGeq(a.frequency, sql_frequency_threshold(cfg))
    IN  IF a.field_name \in mandatory_both_fields
        THEN FieldClassification(a, BOTH, "Mandatory join field", One, is_unique)
        ELSE IF a.is_nested
        THEN FieldClassification(a, MONGODB, "Contains nested objects", One, FALSE)
        ELSE IF a.is_array
        THEN FieldClassification(a, MONGODB, "Contains arrays", One, FALSE)
        ELSE IF RatLess(a.frequency, sparse_threshold(cfg))
        THEN FieldClassification(a, MONGODB, "Sparse field", Rat(9, 10), FALSE)
        ELSE IF RatLess(a.type_stability, sql_type_stability_threshold(cfg))
        THEN FieldClassification(a, MONGODB, "Type instability", Rat(85, 100), FALSE)
        ELSE IF /\ RatGeq(a.type_stability, sql_type_stability_threshold(cfg))
                /\ a.dominant_type \in {"string", "integer", "float", "boolean"}
        THEN FieldClassification(a, SQL, "High frequency, stable type, structured",
                                 RatMin(a.frequency, a.type_stability), is_unique)
        ELSE FieldClassification(a, MONGODB, "Ambiguous pattern", Rat(6, 10), FALSE)

_classify_field_drift_first(cfg, field_analysis) ==
    LET a == field_analysis
        is_unique == /\ RatGeq(a.cardinality, unique_cardinality_threshold(cfg))
                     /\ RatGeq(a.frequency, sql_frequency_threshold(cfg))
    IN  IF a.field_name \in mandatory_both_fields
        THEN FieldClassification(a, BOTH, "Mandatory join field", One, is_unique)
        ELSE IF a.is_nested
        THEN FieldClassification(a, MONGODB, "Contains nested objects", One, FALSE)
        ELSE IF a.is_array
        THEN FieldClassification(a, MONGODB, "Contains arrays", One, FALSE)
        ELSE IF RatLess(a.type_stability, sql_type_stability_threshold(cfg))
        THEN FieldClassification(a, MONGODB, "Type instability", Rat(85, 100), FALSE)
        ELSE IF RatLess(a.frequency, sparse_threshold(cfg))
        THEN FieldClassification(a, MONGODB, "Sparse field", Rat(9, 10), FALSE)
        ELSE IF /\ RatGeq(a.frequency, sql_frequency_threshold(cfg))
                /\ RatGeq(a.type_stability, sql_type_stability_threshold(cfg))
                /\ a.dominant_type \in {"string", "integer", "float", "boolean"}
        THEN FieldClassification(a, SQL, "High frequency, stable type, structured",
                                 RatMin(a.frequency, a.type_stability), is_unique)
        ELSE FieldClassification(a, MONGODB, "Ambiguous pattern", Rat(6, 10), FALSE)

_classify_field_unique_by_cardinality(cfg, field_analysis) ==
    LET a == field_analysis
        is_unique == RatGeq(a.cardinality, unique_cardinality_threshold(cfg))
    IN  IF a.field_name \in mandatory_both_fields
        THEN FieldClassification(a, BOTH, "Mandatory join field", One, is_unique)
        ELSE IF a.is_nested
        THEN FieldClassification(a, MONGODB, "Contains nested objects", One, FALSE)
        ELSE IF a.is_array
        THEN FieldClassification(a, MONGODB, "Contains arrays", One, FALSE)
        ELSE IF RatLess(a.frequency, sparse_threshold(cfg))
        THEN FieldClassification(a, MONGODB, "Sparse field", Rat(9, 10), FALSE)
        ELSE IF RatLess(a.type_stability, sql_type_stability_threshold(cfg))
        THEN FieldClassification(a, MONGODB, "Type instability", Rat(85, 100), FALSE)
        ELSE IF /\ RatGeq(a.frequency, sql_frequency_threshold(cfg))
                /\ RatGeq(a.type_stability, sql_type_stability_threshold(cfg))
                /\ a.dominant_type \in {"string", "integer", "float", "boolean"}
        THEN FieldClassification(a, SQL, "High frequency, stable type, structured",
                                 RatMin(a.frequency, a.type_stability), is_unique)
        ELSE FieldClassification(a, MONGODB, "Ambiguous pattern", Rat(6, 10), FALSE)

_classify_field_sparse_first(cfg, field_analysis) ==
    LET a == field_analysis
        is_unique == /\ RatGeq(a.cardinality, unique_cardinality_threshold(cfg))
                     /\ RatGeq(a.frequency, sql_frequency_threshold(cfg))
    IN  IF a.field_name \in mandatory_both_fields
        THEN FieldClassification(a, BOTH, "Mandatory join field", One, is_unique)
        ELSE IF RatLess(a.frequency, sparse_threshold(cfg))
        THEN FieldClassification(a, MONGODB, "Sparse field", Rat(9, 10), FALSE)
        ELSE IF a.is_nested
        THEN FieldClassification(a, MONGODB, "Contains nested objects", One, FALSE)
        ELSE IF a.is_array
        THEN FieldClassification(a, MONGODB, "Contains arrays", One, FALSE)
        ELSE IF RatLess(a.type_stability, sql_type_stability_threshold(cfg))
        THEN FieldClassification(a, MONGODB, "Type instability", Rat(85, 100), FALSE)
        ELSE IF /\ RatGeq(a.frequency, sql_frequency_threshold(cfg))
                /\ RatGeq(a.type_stability, sql_type_stability_threshold(cfg))
                /\ a.dominant_type \in {"string", "integer", "float", "boolean"}
        THEN FieldClassification(a, SQL, "High frequency, stable type, structured",
                                 RatMin(a.frequency, a.type_stability), is_unique)
        ELSE FieldClassification(a, MONGODB, "Ambiguous pattern", Rat(6, 10), FALSE)

_classify_field(cfg, field_analysis) ==
    LET a == field_analysis
        is_unique == /\ RatGeq(a.cardinality, unique_cardinality_threshold(cfg))
                     /\ RatGeq(a.frequency, sql_frequency_threshold(cfg))
    IN  IF a.field_name \in mandatory_both_fields
        THEN FieldClassification(a, BOTH, "Mandatory join field", One, is_unique)
        ELSE IF a.is_nested
        THEN FieldClassification(a, MONGODB, "Contains nested objects", One, FALSE)
        ELSE IF a.is_array
        THEN FieldClassification(a, MONGODB, "Contains arrays", One, FALSE)
        ELSE IF RatLess(a.frequency, sparse_threshold(cfg))
        THEN FieldClassification(a, MONGODB, "Sparse field", Rat(9, 10), FALSE)
        ELSE IF RatLess(a.type_stability, sql_type_stability_threshold(cfg))
        THEN FieldClassification(a, MONGODB, "Type instability", Rat(85, 100), FALSE)
        ELSE IF /\ RatGeq(a.frequency, sql_frequency_threshold(cfg))
                /\ RatGeq(a.type_stability, sql_type_stability_threshold(cfg))
                /\ a.dominant_type \in {"string", "integer", "float", "boolean"}
        THEN FieldClassification(a, SQL, "High frequency, stable type, structured",
                                 RatMin(a.frequency, a.type_stability), is_unique)
        ELSE FieldClassification(a, MONGODB, "Ambiguous pattern", Rat(6, 10), FALSE)

\* the loop of classify_all_fields, from the empty dict
RECURSIVE ClassifyEach(_, _, _)
ClassifyEach(cfg, done, field_analyses_left) ==
    IF field_analyses_left = <<>> THEN done
    ELSE LET classification == _classify_field(cfg, Head(field_analyses_left))
         IN  ClassifyEach(cfg,
                          DictSet(done, classification.field_name, classification),
                          Tail(field_analyses_left))

classify_all_fields_merging(cfg, analyses) == ClassifyEach(cfg, classifications, analyses)
classify_all_fields(cfg, analyses) == ClassifyEach(cfg, EmptyDict, analyses)

get_sql_fields(cls) == LET InSql(c) == c.backend \in {SQL, BOTH} IN SelectSeq(DictValues(cls), InSql)
get_mongodb_fields(cls) ==
    LET InMongo(c) == c.backend \in {MONGODB, BOTH} IN SelectSeq(DictValues(cls), InMongo)
get_unique_fields(cls) ==
    LET InSql(c) == c.backend \in {SQL, BOTH} /\ c.is_unique
        unique == SelectSeq(DictValues(cls), InSql)
    IN  [i \in 1..Len(unique) |-> unique[i].field_name]

\* Classifier.get_summary, without the thresholds_used echo
classifier_summary(cls) ==
    LET IsSql(c) == c.backend = SQL
        IsMongo(c) == c.backend = MONGODB
        IsBoth(c) == c.backend = BOTH
    IN  [total_fields |-> Len(cls),
         sql_only |-> Len(SelectSeq(DictValues(cls), IsSql)),
         mongodb_only |-> Len(SelectSeq(DictValues(cls), IsMongo)),
         both |-> Len(SelectSeq(DictValues(cls), IsBoth)),
         unique_fields |-> Len(get_unique_fields(cls))]

\* The configurations a Classifier is constructed with: none, a raised
\* sparse threshold, lowered SQL thresholds
Configs ==
    {<<>>,
     [k \in {"sparse_threshold"} |-> Rat(9, 10)],
     [k \in {"sql_frequency", "sql_type_stability"} |-> Rat(1, 2)]}

\* The field analyses given to the classifier
DominantTypes == {"string", "integer", "float", "boolean", "null", "unknown"}
\* a field that held objects or arrays is given with dominant type string or
\* object and cardinality 1.0; a field of scalars with every combination; the
\* mandatory field with the extremes of frequency and stability and two types
Analyses ==
    {a \in [field_name : {<<"u", "s", "e", "r", "n", "a", "m", "e">>, <<"a">>},
            frequency : {Rat(1, 10), Rat(3, 10), Rat(1, 2), Rat(4, 5), One},
            type_stability : {Rat(1, 2), Rat(9, 10), Rat(95, 100)},
            dominant_type : DominantTypes \cup {"object"},
            is_nested : BOOLEAN, is_array : BOOLEAN,
            cardinality : {Rat(1, 2), One}] :
        /\ IF a.is_nested \/ a.is_array
           THEN a.dominant_type \in {"string", "object"} /\ a.cardinality = One
           ELSE a.dominant_type \in DominantTypes
        /\ a.field_name \in mandatory_both_fields
           => /\ a.frequency \in {Rat(1, 10), One}
              /\ a.type_stability \in {Rat(1, 2), Rat(95, 100)}
              /\ a.dominant_type \in {"string", "null", "object"}}
AnalysisLists ==
    LET \* the analyses that lists of two are made of
        PairAnalyses ==
            {a \in Analyses :
                /\ a.frequency \in {Rat(1, 10), One}
                /\ a.type_stability = Rat(95, 100)
                /\ a.dominant_type = "string"
                /\ ~a.is_array
                /\ a.cardinality = One}
    IN  {<<>>} \cup {<<a>> : a \in Analyses}
               \cup {<<a, b>> : a \in PairAnalyses, b \in PairAnalyses}

ClassifyAllFields(analyses) ==
    /\ classifications' = classify_all_fields(config, analyses)
    /\ field_analyses' = analyses
    /\ superseded' = DictKeys(classifications)
    /\ UNCHANGED <<stream, callVars, config, analyzerVars, observed, ingested, checkpointVars, resolverVars>>

\* Classifier(config)
InitClassifier(cfg) ==
    /\ config = cfg
    /\ classifications = EmptyDict
    /\ field_analyses = <<>>
    /\ superseded = {}

----------------------------------------------------------------------------
(* normalizer.py: FieldNormalizer *)

\* self.known_patterns, in the order of the dict literal
known_patterns ==
    <<
      <<<<"u", "s", "e", "r", "n", "a", "m", "e">>,
        <<<<"u", "s", "e", "r", "n", "a", "m", "e">>,
          <<"u", "s", "e", "r", "_", "n", "a", "m", "e">>,
          <<"u", "s", "e", "r", "N", "a", "m", "e">>,
          <<"U", "s", "e", "r", "n", "a", "m", "e">>,
          <<"U", "s", "e", "r", "N", "a", "m", "e">>>>>>,
      <<<<"t", "i", "m", "e", "s", "t", "a", "m", "p">>,
        <<<<"t", "i", "m", "e", "s", "t", "a", "m", "p">>,
          <<"t", "_", "s", "t", "a", "m", "p">>,
          <<"t", "i", "m", "e", "_", "s", "t", "a", "m", "p">>,
          <<"t", "i", "m", "e", "S", "t", "a", "m", "p">>,
          <<"T", "i", "m", "e", "s", "t", "a", "m", "p">>>>>>,
      <<<<"i", "p", "_", "a", "d", "d", "r", "e", "s", "s">>,
        <<<<"i", "p">>,
          <<"I", "P">>,
          <<"I", "p", "A", "d", "d", "r", "e", "s", "s">>,
          <<"i", "p", "_", "a", "d", "d", "r", "e", "s", "s">>,
          <<"i", "p", "A", "d", "d", "r", "e", "s", "s">>,
          <<"I", "p">>>>>>,
      <<<<"e", "m", "a", "i", "l">>,
        <<<<"e", "m", "a", "i", "l">>,
          <<"E", "m", "a", "i", "l">>,
          <<"e", "m", "a", "i", "l", "_", "a", "d", "d", "r", "e", "s", "s">>,
          <<"e", "m", "a", "i", "l", "A", "d", "d", "r", "e", "s", "s">>,
          <<"e", "_", "m", "a", "i", "l">>>>>>,
      <<<<"a", "g", "e">>,
        <<<<"a", "g", "e">>,
          <<"A", "g", "e">>,
          <<"u", "s", "e", "r", "_", "a", "g", "e">>,
          <<"u", "s", "e", "r", "A", "g", "e">>>>>>,
      <<<<"c", "o", "u", "n", "t", "r", "y">>,
        <<<<"c", "o", "u", "n", "t", "r", "y">>,
          <<"C", "o", "u", "n", "t", "r", "y">>,
          <<"l", "o", "c", "a", "t", "i", "o", "n", "_", "c", "o", "u", "n", "t", "r", "y">>>>>>,
      <<<<"s", "t", "a", "t", "u", "s">>,
        <<<<"s", "t", "a", "t", "u", "s">>,
          <<"S", "t", "a", "t", "u", "s">>,
          <<"u", "s", "e", "r", "_", "s", "t", "a", "t", "u", "s">>,
          <<"u", "s", "e", "r", "S", "t", "a", "t", "u", "s">>>>>>
    >>

\* the assignments canonical_map[variant.lower()] = canonical that the loops
\* of __init__ make, in order
RECURSIVE SeedBindings(_)
SeedBindings(patterns) ==
    IF patterns = <<>> THEN <<>>
    ELSE LET canonical == Head(patterns)[1]
             variants == Head(patterns)[2]
         IN  [i \in 1..Len(variants) |-> <<lower(variants[i]), canonical>>]
             \o SeedBindings(Tail(patterns))

\* __init__
NewNormalizer ==
    LET \* the dict the assignments make: each key at the place of its first
        \* assignment, with the value of its last
        pairs == SeedBindings(known_patterns)
        firsts == {i \in 1..Len(pairs) :
                      \A j \in 1..(i - 1) : pairs[j][1] # pairs[i][1]}
        kth(k) == CHOOSE i \in firsts : Cardinality({j \in firsts : j < i}) = k - 1
        last(key) == CHOOSE i \in 1..Len(pairs) :
                        /\ pairs[i][1] = key
                        /\ \A j \in (i + 1)..Len(pairs) : pairs[j][1] # key
    IN  [canonical_map |->
            [k \in 1..Cardinality(firsts) |->
                <<pairs[kth(k)][1], pairs[last(pairs[kth(k)][1])][2]>>],
         variations |->
            [canonical \in {known_patterns[i][1] : i \in 1..Len(known_patterns)} |->
                LET i == CHOOSE i \in 1..Len(known_patterns) :
                            known_patterns[i][1] = canonical
                IN  Range(known_patterns[i][2])]]

\* the end of the run of lowercase letters that starts at s[i]
RECURSIVE LowerRunEnd(_, _)
LowerRunEnd(s, i) ==
    IF i + 1 <= Len(s) /\ IsLower(s[i + 1]) THEN LowerRunEnd(s, i + 1) ELSE i

\* re.sub('(.)([A-Z][a-z]+)', r'\1_\2', s) from position i on: the leftmost
\* match, the longest run of [a-z], then on after the match
RECURSIVE SubUpperWord(_, _)
SubUpperWord(s, i) ==
    IF i > Len(s) THEN <<>>
    ELSE IF i + 2 <= Len(s) /\ IsUpper(s[i + 1]) /\ IsLower(s[i + 2])
    THEN LET j == LowerRunEnd(s, i + 2)
         IN  <<s[i], "_">> \o Slice(s, i + 1, j) \o SubUpperWord(s, j + 1)
    ELSE <<s[i]>> \o SubUpperWord(s, i + 1)

\* re.sub('([a-z0-9])([A-Z])', r'\1_\2', s) from position i on
RECURSIVE SubLowerUpper(_, _)
SubLowerUpper(s, i) ==
    IF i > Len(s) THEN <<>>
    ELSE IF i + 1 <= Len(s) /\ (IsLower(s[i]) \/ IsDigit(s[i])) /\ IsUpper(s[i + 1])
    THEN <<s[i], "_", s[i + 1]>> \o SubLowerUpper(s, i + 2)
    ELSE <<s[i]>> \o SubLowerUpper(s, i + 1)

_to_snake_case(name) ==
    LET s1 == SubUpperWord(name, 1)
        s2 == SubLowerUpper(s1, 1)
    IN  lower(s2)

\* s.replace('_', '')
RECURSIVE StripUnderscores(_)
StripUnderscores(s) ==
    IF s = <<>> THEN <<>>
    ELSE IF Head(s) = "_" THEN StripUnderscores(Tail(s))
    ELSE <<Head(s)>> \o StripUnderscores(Tail(s))

Abs(x) == IF x < 0 THEN -x ELSE x

\* _is_similar without the test of the length difference
_is_similar_any_difference(name1, name2) ==
    LET clean1 == StripUnderscores(name1)
        clean2 == StripUnderscores(name2)
    IN  \/ clean1 = clean2
        \/ /\ Len(clean1) > 3 /\ Len(clean2) > 3
           /\ Contains(clean2, clean1) \/ Contains(clean1, clean2)

_is_similar(name1, name2) ==
    LET clean1 == StripUnderscores(name1)
        clean2 == StripUnderscores(name2)
    IN  \/ clean1 = clean2
        \/ /\ Len(clean1) > 3 /\ Len(clean2) > 3
           /\ Contains(clean2, clean1) \/ Contains(clean1, clean2)
           /\ Abs(Len(clean1) - Len(clean2)) <= 3

\* Bind assigning the variant set where the code adds to it
Bind_assigning(n, lower_name, canonical, field_name) ==
    [canonical_map |-> DictSet(n.canonical_map, lower_name, canonical),
     variations |-> FnSet(n.variations, canonical, {field_name})]

\* self.canonical_map[lower_name] = canonical; self.variations[canonical].add(field_name)
Bind(n, lower_name, canonical, field_name) ==
    [canonical_map |-> DictSet(n.canonical_map, lower_name, canonical),
     variations |-> FnSet(n.variations, canonical,
                          FnGet(n.variations, canonical, {}) \cup {field_name})]

\* _find_canonical_match whose fuzzy step binds the match but returns snake_name
_find_canonical_match_returns_snake(n, field_name) ==
    LET lower_name == lower(field_name)
        snake_name == _to_snake_case(field_name)
        values == DictValues(n.canonical_map)
        similar == {i \in 1..Len(values) : _is_similar(snake_name, values[i])}
    IN  IF DictHas(n.canonical_map, lower_name)
        THEN [ret |-> DictGet(n.canonical_map, lower_name, <<>>), n |-> n]
        ELSE IF snake_name \in Range(values)
        THEN [ret |-> snake_name, n |-> Bind(n, lower_name, snake_name, field_name)]
        ELSE IF similar # {}
        THEN LET canonical == values[CHOOSE i \in similar : \A j \in similar : i <= j]
             IN  [ret |-> snake_name, n |-> Bind(n, lower_name, canonical, field_name)]
        ELSE [ret |-> snake_name, n |-> Bind(n, lower_name, snake_name, field_name)]

\* _find_canonical_match recording the raw name as a variant on a direct hit too
_find_canonical_match_records_hits(n, field_name) ==
    LET lower_name == lower(field_name)
        snake_name == _to_snake_case(field_name)
        values == DictValues(n.canonical_map)
        similar == {i \in 1..Len(values) : _is_similar(snake_name, values[i])}
        hit == DictGet(n.canonical_map, lower_name, <<>>)
    IN  IF DictHas(n.canonical_map, lower_name)
        THEN [ret |-> hit, n |-> Bind(n, lower_name, hit, field_name)]
        ELSE IF snake_name \in Range(values)
        THEN [ret |-> snake_name, n |-> Bind(n, lower_name, snake_name, field_name)]
        ELSE IF similar # {}
        THEN LET canonical == values[CHOOSE i \in similar : \A j \in similar : i <= j]
             IN  [ret |-> canonical, n |-> Bind(n, lower_name, canonical, field_name)]
        ELSE [ret |-> snake_name, n |-> Bind(n, lower_name, snake_name, field_name)]

\* _find_canonical_match binding the raw name where the code binds lower_name
_find_canonical_match_keys_raw(n, field_name) ==
    LET lower_name == lower(field_name)
        snake_name == _to_snake_case(field_name)
        values == DictValues(n.canonical_map)
        similar == {i \in 1..Len(values) : _is_similar(snake_name, values[i])}
    IN  IF DictHas(n.canonical_map, lower_name)
        THEN [ret |-> DictGet(n.canonical_map, lower_name, <<>>), n |-> n]
        ELSE IF snake_name \in Range(values)
        THEN [ret |-> snake_name, n |-> Bind(n, field_name, snake_name, field_name)]
        ELSE IF similar # {}
        THEN LET canonical == values[CHOOSE i \in similar : \A j \in similar : i <= j]
             IN  [ret |-> canonical, n |-> Bind(n, field_name, canonical, field_name)]
        ELSE [ret |-> snake_name, n |-> Bind(n, field_name, snake_name, field_name)]

_find_canonical_match_case_sensitive(n, field_name) ==
    LET lower_name == lower(field_name)
        snake_name == _to_snake_case(field_name)
        values == DictValues(n.canonical_map)
        similar == {i \in 1..Len(values) : _is_similar(snake_name, values[i])}
    IN  IF DictHas(n.canonical_map, field_name)
        THEN [ret |-> DictGet(n.canonical_map, field_name, <<>>), n |-> n]
        ELSE IF snake_name \in Range(values)
        THEN [ret |-> snake_name, n |-> Bind(n, lower_name, snake_name, field_name)]
        ELSE IF similar # {}
        THEN LET canonical == values[CHOOSE i \in similar : \A j \in similar : i <= j]
             IN  [ret |-> canonical, n |-> Bind(n, lower_name, canonical, field_name)]
        ELSE [ret |-> snake_name, n |-> Bind(n, lower_name, snake_name, field_name)]

_find_canonical_match_without_fuzzy(n, field_name) ==
    LET lower_name == lower(field_name)
        snake_name == _to_snake_case(field_name)
        values == DictValues(n.canonical_map)
        similar == {i \in 1..Len(values) : _is_similar(snake_name, values[i])}
    IN  IF DictHas(n.canonical_map, lower_name)
        THEN [ret |-> DictGet(n.canonical_map, lower_name, <<>>), n |-> n]
        ELSE IF snake_name \in Range(values)
        THEN [ret |-> snake_name, n |-> Bind(n, lower_name, snake_name, field_name)]
        ELSE IF FALSE
        THEN LET canonical == values[CHOOSE i \in similar : \A j \in similar : i <= j]
             IN  [ret |-> canonical, n |-> Bind(n, lower_name, canonical, field_name)]
        ELSE [ret |-> snake_name, n |-> Bind(n, lower_name, snake_name, field_name)]

\* _find_canonical_match whose fuzzy step lists the raw name under snake_name
_find_canonical_match_lists_under_snake(n, field_name) ==
    LET lower_name == lower(field_name)
        snake_name == _to_snake_case(field_name)
        values == DictValues(n.canonical_map)
        similar == {i \in 1..Len(values) : _is_similar(snake_name, values[i])}
    IN  IF DictHas(n.canonical_map, lower_name)
        THEN [ret |-> DictGet(n.canonical_map, lower_name, <<>>), n |-> n]
        ELSE IF snake_name \in Range(values)
        THEN [ret |-> snake_name, n |-> Bind(n, lower_name, snake_name, field_name)]
        ELSE IF similar # {}
        THEN LET canonical == values[CHOOSE i \in similar : \A j \in similar : i <= j]
             IN  [ret |-> canonical,
                  n |-> [canonical_map |-> DictSet(n.canonical_map, lower_name, canonical),
                         variations |-> FnSet(n.variations, snake_name,
                                              FnGet(n.variations, snake_name, {})
                                                  \cup {field_name})]]
        ELSE [ret |-> snake_name, n |-> Bind(n, lower_name, snake_name, field_name)]

\* [ret |-> the canonical name returned, n |-> the normalizer afterwards]
_find_canonical_match(n, field_name) ==
    LET lower_name == lower(field_name)
        snake_name == _to_snake_case(field_name)
        values == DictValues(n.canonical_map)
        similar == {i \in 1..Len(values) : _is_similar(snake_name, values[i])}
    IN  IF DictHas(n.canonical_map, lower_name)
        THEN [ret |-> DictGet(n.canonical_map, lower_name, <<>>), n |-> n]
        ELSE IF snake_name \in Range(values)
        THEN [ret |-> snake_name, n |-> Bind(n, lower_name, snake_name, field_name)]
        ELSE IF similar # {}
        THEN LET canonical == values[CHOOSE i \in similar : \A j \in similar : i <= j]
             IN  [ret |-> canonical, n |-> Bind(n, lower_name, canonical, field_name)]
        ELSE [ret |-> snake_name, n |-> Bind(n, lower_name, snake_name, field_name)]

normalize_field_name(n, field_name) == _find_canonical_match(n, field_name)

\* the loop of normalize_record over record.items(), a record being the
\* sequence of its <<key, value>> items in insertion order
RECURSIVE NormalizeItems_keeping_first(_, _, _, _)
NormalizeItems_keeping_first(n, normalized, mapping, items) ==
    IF items = <<>> THEN [ret |-> <<normalized, mapping>>, n |-> n]
    ELSE LET original_name == Head(items)[1]
             value == Head(items)[2]
         IN  CHOOSE result \in
                 {NormalizeItems_keeping_first(
                      call.n,
                      IF DictHas(normalized, call.ret) THEN normalized
                      ELSE DictSet(normalized, call.ret, value),
                      DictSet(mapping, original_name, call.ret),
                      Tail(items)) :
                      call \in {normalize_field_name(n, original_name)}} : TRUE

RECURSIVE NormalizeItems(_, _, _, _)
NormalizeItems(n, normalized, mapping, items) ==
    IF items = <<>> THEN [ret |-> <<normalized, mapping>>, n |-> n]
    ELSE LET original_name == Head(items)[1]
             value == Head(items)[2]
         IN  CHOOSE result \in
                 {NormalizeItems(call.n,
                                 DictSet(normalized, call.ret, value),
                                 DictSet(mapping, original_name, call.ret),
                                 Tail(items)) :
                      call \in {normalize_field_name(n, original_name)}} : TRUE

\* [ret |-> <<normalized_record, mapping_used>>, n |-> the normalizer afterwards]
normalize_record(n, record) == NormalizeItems(n, EmptyDict, EmptyDict, record)

\* the FieldNormalizer held in the variables
normalizer == [canonical_map |-> canonical_map, variations |-> variations]

\* The raw names given to the resolver
RawNames ==
    {<<"I", "P">>,
     <<"U", "S", "E", "R", "N", "A", "M", "E">>,
     <<"t", "S", "t", "a", "m", "p">>,
     <<"t", "_", "s", "t", "a", "m", "p">>,
     <<"u", "s", "e", "r", "I", "d">>,
     <<"u", "s", "e", "r", "I", "d", "s">>,
     <<"u", "s", "e", "r", "_", "i", "d">>,
     <<"u", "s", "e", "r", "N", "a", "m", "e", "s">>}

\* a call normalize_field_name(field_name)
NormalizeFieldName(field_name) ==
    LET call == normalize_field_name(normalizer, field_name)
    IN  /\ canonical_map' = call.n.canonical_map
        /\ variations' = call.n.variations
        /\ returned' = IF field_name \in DOMAIN returned THEN returned
                       ELSE FnSet(returned, field_name, call.ret)
        /\ UNCHANGED <<stream, callVars, renamed, compared, exported, replica, analyzerVars, observed,
                       ingested, checkpointVars, classifierVars>>

\* The records given to normalize_record: two distinct keys, among them
\* "userId" and "user_id", which resolve to one canonical name
RawRecordKeys ==
    {<<"I", "P">>,
     <<"u", "s", "e", "r", "I", "d">>,
     <<"u", "s", "e", "r", "_", "i", "d">>,
     <<"u", "s", "e", "r", "N", "a", "m", "e", "s">>}
RawRecords ==
    {<<<<k1, PyInt(1)>>, <<k2, PyInt(2)>>>> :
        <<k1, k2>> \in {p \in RawRecordKeys \X RawRecordKeys : p[1] # p[2]}}

\* a call normalize_record(record)
NormalizeRecord(record) ==
    \E call \in {normalize_record(normalizer, record)} :
        LET mapping == call.ret[2]
        IN  /\ canonical_map' = call.n.canonical_map
            /\ variations' = call.n.variations
            /\ returned' = [k \in DOMAIN returned \cup DictKeys(mapping) |->
                               IF k \in DOMAIN returned THEN returned[k]
                               ELSE DictGet(mapping, k, <<>>)]
            /\ UNCHANGED <<stream, callVars, renamed, compared, exported, replica, analyzerVars,
                           observed, ingested, checkpointVars, classifierVars>>

\* renamed_record, name_mapping = normalize_record(record)
NormalizeRecordReturning(record) ==
    \E call \in {normalize_record(normalizer, record)} :
        LET mapping == call.ret[2]
        IN  /\ canonical_map' = call.n.canonical_map
            /\ variations' = call.n.variations
            /\ returned' = [k \in DOMAIN returned \cup DictKeys(mapping) |->
                               IF k \in DOMAIN returned THEN returned[k]
                               ELSE DictGet(mapping, k, <<>>)]
            /\ renamed' = <<record, call.ret[1], call.ret[2]>>
            /\ UNCHANGED <<stream, callVars, compared, exported, replica, analyzerVars, observed,
                           ingested, checkpointVars, classifierVars>>

\* FieldNormalizer(), twice
InitRegistry ==
    /\ canonical_map = NewNormalizer.canonical_map
    /\ variations = NewNormalizer.variations
    /\ returned = <<>>
    /\ exported = <<>>
    /\ renamed = <<>>
    /\ replica = [aliased |-> FALSE, canonical_map |-> NewNormalizer.canonical_map,
                  variations |-> NewNormalizer.variations, returned |-> <<>>]
InitResolver == InitRegistry /\ compared = <<>>

\* The pairs of names given to _is_similar: short and long names, with and
\* without underscores, substrings of each other at length differences 1 to 4
SimilarNames ==
    {<<"i", "d">>,
     <<"i", "_", "d">>,
     <<"i", "d", "s">>,
     <<"u", "i", "d">>,
     <<"a", "g", "e">>,
     <<"a", "g", "e", "s">>,
     <<"u", "s", "e", "r">>,
     <<"u", "s", "e", "r", "s">>,
     <<"u", "s", "e", "r", "_", "i", "d">>,
     <<"u", "s", "e", "r", "n", "a", "m", "e">>,
     <<"u", "s", "e", "r", "_", "n", "a", "m", "e">>,
     <<"u", "s", "e", "r", "n", "a", "m", "e", "s">>,
     <<"n", "a", "m", "e">>,
     <<"i", "d", "e", "n", "t", "i", "t", "y">>,
     <<"e", "n", "t", "i", "t", "y">>}

\* a call _is_similar(name1, name2)
IsSimilar ==
    /\ Len(compared) = 2
    /\ compared' = compared \o <<_is_similar(compared[1], compared[2])>>
    /\ UNCHANGED <<stream, callVars, renamed, canonical_map, variations, returned, exported, replica,
                   analyzerVars, observed, ingested, checkpointVars, classifierVars>>

\* The object self.canonical_map of the first normalizer, as a value that
\* refers to it holds it: the dict itself, not a copy
Alias == "self.canonical_map"

\* normalizer.export_mappings(): 'canonical_map' is the dict object itself,
\* 'variations' a new dict of new lists
export_mappings(n) ==
    [canonical_map |-> Alias,
     variations |-> [k \in DOMAIN n.variations |-> list(n.variations[k])]]

\* import_mappings(mappings) on the second normalizer: its canonical_map
\* becomes the object that mappings holds, its variations new sets
import_mappings(mappings) ==
    [aliased |-> mappings.canonical_map = Alias,
     canonical_map |-> EmptyDict,
     variations |-> [k \in DOMAIN mappings.variations |-> set(mappings.variations[k])],
     returned |-> <<>>]

\* the second normalizer, its canonical_map read through the reference
replica_normalizer ==
    [canonical_map |-> IF replica.aliased THEN canonical_map ELSE replica.canonical_map,
     variations |-> replica.variations]

\* The raw names given to the two normalizers: userIds and userIdx are each
\* similar to userId and not to each other
ReplicaNames ==
    {<<"u", "s", "e", "r", "I", "d">>,
     <<"u", "s", "e", "r", "I", "d", "s">>,
     <<"u", "s", "e", "r", "I", "d", "x">>}

\* mappings = normalizer.export_mappings()
ExportMappings ==
    /\ exported' = <<export_mappings(normalizer),
                     [canonical_map |-> canonical_map, variations |-> variations]>>
    /\ UNCHANGED <<stream, callVars, renamed, canonical_map, variations, returned, compared, replica,
                   analyzerVars, observed, ingested, checkpointVars, classifierVars>>

\* replica.import_mappings(mappings)
ImportMappings ==
    /\ exported # <<>>
    /\ replica' = import_mappings(exported[1])
    /\ UNCHANGED <<stream, callVars, renamed, canonical_map, variations, returned, compared, exported,
                   analyzerVars, observed, ingested, checkpointVars, classifierVars>>

\* replica.normalize_field_name(field_name): the writes to canonical_map go
\* to the dict object the replica holds
ReplicaNormalizeFieldName(field_name) ==
    /\ \E call \in {normalize_field_name(replica_normalizer, field_name)} :
        LET history == IF field_name \in DOMAIN replica.returned THEN replica.returned
                       ELSE FnSet(replica.returned, field_name, call.ret)
        IN  IF replica.aliased
            THEN /\ canonical_map' = call.n.canonical_map
                 /\ replica' = [replica EXCEPT !.variations = call.n.variations,
                                               !.returned = history]
            ELSE /\ UNCHANGED canonical_map
                 /\ replica' = [replica EXCEPT !.canonical_map = call.n.canonical_map,
                                               !.variations = call.n.variations,
                                               !.returned = history]
    /\ UNCHANGED <<stream, callVars, renamed, variations, returned, compared, exported,
                   analyzerVars, observed, ingested, checkpointVars, classifierVars>>

----------------------------------------------------------------------------
(* The pipeline: normalize_record, analyze_record, classify_all_fields *)

MaxPipelineRecords == 20
MaxSpellingRecords == 2
MaxOtherRecords == 3

ip_address == <<"i", "p", "_", "a", "d", "d", "r", "e", "s", "s">>
\* the raw keys of the address: any number of records hold the first, at
\* most MaxSpellingRecords each of the other two
IpSpellings ==
    {<<"I", "P">>, ip_address, <<"I", "p", "A", "d", "d", "r", "e", "s", "s">>}
metadata == <<"m", "e", "t", "a", "d", "a", "t", "a">>
\* the other records: an object, a string or an array under one key
OtherRecords ==
    LET tags == <<"t", "a", "g", "s">>
    IN  {<<<<metadata, PyDict>>>>, <<<<metadata, PyStr(<<"x">>)>>>>,
         <<<<tags, PyList>>>>, <<<<tags, PyStr(<<"x">>)>>>>}
PipelineRecords ==
    {<<<<k, PyStr(DottedQuad)>>>> : k \in IpSpellings} \cup OtherRecords

\* the number of ingested records holding raw key k, and holding it with value v
Holding(k) ==
    LET held == {r \in BagToSet(ingested) : r[1][1] = k}
    IN  BagCardinality([r \in held |-> ingested[r]])
HoldingValue(k, v) ==
    IF BagIn(<<<<k, v>>>>, ingested) THEN ingested[<<<<k, v>>>>] ELSE 0

\* normalized, _ = normalizer.normalize_record(record);
\* analyzer.analyze_record(normalized)
Ingest(record) ==
    /\ field_analyses = <<>>
    /\ BagCardinality(ingested) < MaxPipelineRecords
    /\ record \in OtherRecords
        => BagCardinality(ingested) - Holding(<<"I", "P">>) - Holding(ip_address)
              - Holding(<<"I", "p", "A", "d", "d", "r", "e", "s", "s">>) < MaxOtherRecords
    /\ record[1][1] \in IpSpellings \ {<<"I", "P">>}
        => Holding(record[1][1]) < MaxSpellingRecords
    /\ \E call \in {normalize_record(normalizer, record)} :
        LET normalized == call.ret[1]
            mapping == call.ret[2]
            \* the normalized dict as analyze_record reads it
            Items(dict) == [k \in DictKeys(dict) |-> DictGet(dict, k, <<>>)]
        IN  /\ canonical_map' = call.n.canonical_map
            /\ variations' = call.n.variations
            /\ returned' = [k \in DOMAIN returned \cup DictKeys(mapping) |->
                               IF k \in DOMAIN returned THEN returned[k]
                               ELSE DictGet(mapping, k, <<>>)]
            /\ Becomes(analyze_record(self, Items(normalized)))
    /\ ingested' = ingested (+) SetToBag({record})
    /\ UNCHANGED <<stream, callVars, renamed, observed, compared, exported, replica, checkpointVars, classifierVars>>

\* field_analyses = analyzer.get_all_fields_analysis();
\* classifier.classify_all_fields(field_analyses)
Classify ==
    /\ field_analyses = <<>>
    /\ \E call \in {get_all_fields_analysis(self)} :
        /\ Becomes(call.s)
        /\ classifications' = classify_all_fields(config, call.ret)
        /\ field_analyses' = call.ret
    /\ superseded' = DictKeys(classifications)
    /\ UNCHANGED <<stream, callVars, config, observed, ingested, checkpointVars, resolverVars>>

----------------------------------------------------------------------------
(* Specifications *)

\* a DataAnalyzer(), a Classifier() and a FieldNormalizer()
Init == InitAnalyzer /\ snapshot = <<>> /\ InitClassifier(<<>>) /\ InitResolver
\* the same with a Classifier(config) for any of the configurations
InitConfigured ==
    /\ InitAnalyzer /\ snapshot = <<>> /\ InitResolver
    /\ \E cfg \in Configs : InitClassifier(cfg)

\* the profiler: records are analyzed and queries are made
Next ==
    \/ \E record \in Records : AnalyzeRecord(record)
    \/ Query
Spec == Init /\ [][Next]_vars

\* the profiler with checkpoints
NextCheckpoint ==
    \/ \E record \in CheckpointRecords : AnalyzeRecordCk(record)
    \/ ExportState
    \/ ImportState
    \/ Restart
SpecCheckpoint == Init /\ [][NextCheckpoint]_vars

\* the classifier
NextClassifier == \E analyses \in AnalysisLists : ClassifyAllFields(analyses)
SpecClassifier == InitConfigured /\ [][NextClassifier]_vars

\* the resolver
NextResolver ==
    \/ \E field_name \in RawNames : NormalizeFieldName(field_name)
    \/ \E record \in RawRecords : NormalizeRecord(record)
SpecResolver == Init /\ [][NextResolver]_vars

\* the fuzzy comparison, for every pair of names
InitSimilar ==
    /\ InitAnalyzer /\ snapshot = <<>> /\ InitClassifier(<<>>) /\ InitRegistry
    /\ compared \in SimilarNames \X SimilarNames
SpecSimilar == InitSimilar /\ [][IsSimilar]_vars

\* the resolver given records, whose renamed records are kept
NextRecords == \E record \in RawRecords : NormalizeRecordReturning(record)
SpecRecords == Init /\ [][NextRecords]_vars

\* the profiler given values whose types and patterns tie
NextTies ==
    \/ \E record \in TieRecords : AnalyzeRecord(record)
    \/ Query
SpecTies == Init /\ [][NextTies]_vars

\* two normalizers, and mappings exported from the first and imported by the second
NextReplica ==
    \/ \E field_name \in ReplicaNames : NormalizeFieldName(field_name)
    \/ \E field_name \in ReplicaNames : ReplicaNormalizeFieldName(field_name)
    \/ ExportMappings
    \/ ImportMappings
SpecReplica == Init /\ [][NextReplica]_vars

\* the pipeline: records are ingested, then the fields are classified
NextPipeline ==
    \/ \E record \in PipelineRecords : Ingest(record)
    \/ Classify
SpecPipeline == InitConfigured /\ [][NextPipeline]_vars

----------------------------------------------------------------------------
(* A get_all_fields_analysis call interleaved with an analyze_record call *)

\* analyze_record is entered at most this many times in the interleaved runs
MaxInterleavedRecords == 2

\* the records of the interleaved runs
InterleavedRecords ==
    {r \in Records : \A f \in DOMAIN r : r[f] \in {PyInt(1), PyDict, PyList}}

\* an iteration of the loop of analyze_record that folds only a field not met before
analyze_record_step_new_fields_only(s, record, field_name) ==
    IF field_name \in DOMAIN s.field_counts THEN s
    ELSE _analyze_value(s, field_name, record[field_name])

\* one iteration of the loop of analyze_record
analyze_record_step(s, record, field_name) ==
    _analyze_value(s, field_name, record[field_name])

\* No analyze_record call is between its entry and the end of its loop when
\* in_progress.left is empty; a get_all_fields_analysis call is between its
\* entry and its return when view.todo is not empty, and view.overlapped
\* tells that analyze_record took a step during the call.

\* self.total_records += 1, on entry to analyze_record
EnterAnalyzeRecord(record) ==
    /\ in_progress.left = {}
    /\ total_records < MaxInterleavedRecords
    /\ total_records' = total_records + 1
    /\ in_progress' = [record |-> record, left |-> DOMAIN record]
    /\ accepted' = Append(accepted, DOMAIN record)
    /\ observed' = [f \in FieldNames |->
                      IF f \in DOMAIN record THEN observed[f] \cup {record[f]}
                      ELSE observed[f]]
    /\ view' = [view EXCEPT !.overlapped = @ \/ view.todo # <<>>]
    /\ UNCHANGED <<stream, field_counts, field_types, field_values, nested_fields,
                   array_fields, pattern_matches, ingested, checkpointVars,
                   classifierVars, resolverVars>>

\* self._analyze_value(field_name, value), for the next item of the record:
\* a record with the items in any order is a record
AnalyzeNextItem(field_name) ==
    /\ field_name \in in_progress.left
    /\ Becomes(analyze_record_step(self, in_progress.record, field_name))
    /\ in_progress' = [in_progress EXCEPT !.left = @ \ {field_name}]
    /\ view' = [view EXCEPT !.overlapped = @ \/ view.todo # <<>>]
    /\ UNCHANGED <<stream, observed, accepted, ingested, checkpointVars, classifierVars,
                   resolverVars>>

\* all_fields = set(self.field_counts.keys()); analyses = []
EnterGetAllFieldsAnalysis ==
    /\ view.todo = <<>>
    /\ view' = [entered |-> TRUE,
                analyses |-> <<>>,
                todo |-> sorted(DOMAIN field_counts),
                overlapped |-> in_progress.left # {}]
    /\ UNCHANGED <<stream, analyzerVars, observed, ingested, checkpointVars, classifierVars,
                   resolverVars, in_progress, accepted>>

\* analyses.append(self.get_field_analysis(field_name)), with the
\* total_records that get_field_frequency read
AppendFieldAnalysis ==
    /\ view.todo # <<>>
    /\ \E call \in {get_field_analysis(self, Head(view.todo))} :
        /\ view' = [view EXCEPT
                      !.analyses = Append(@, [analysis |-> call.ret,
                                              total_records |-> total_records]),
                      !.todo = Tail(@)]
        /\ Becomes(call.s)
    /\ UNCHANGED <<stream, observed, ingested, checkpointVars, classifierVars, resolverVars,
                   in_progress, accepted>>

\* one thread analyzes records while another reads the analysis of all fields
NextInterleaved ==
    \/ \E record \in InterleavedRecords : EnterAnalyzeRecord(record)
    \/ \E field_name \in FieldNames : AnalyzeNextItem(field_name)
    \/ EnterGetAllFieldsAnalysis
    \/ AppendFieldAnalysis
SpecInterleaved == Init /\ [][NextInterleaved]_vars

----------------------------------------------------------------------------
(* The record source: DataStreamClient.stream_records *)

\* stream_records is asked for at most this many records
MaxStreamRecords == 3
\* ... in batches of at most this many
MaxBatchSize == 2
\* the server answers a request with a list of at most this many records
MaxBatch == 3

\* fetch_batch(count): the list in the server's answer, of whatever length
\* (a batch is modelled by its length), or the exception of a failed request
fetch_batch(count) ==
    [raises : {FALSE}, batch : 0..MaxBatch] \cup [raises : {TRUE}, batch : {0}]

\* stream_records(total_records, batch_size): records_fetched = 0, and the
\* first test of the while loop
StreamRecords(total, size) ==
    /\ stream.pc = "idle"
    /\ stream' = [pc |-> IF 0 < total THEN "fetch" ELSE "done",
                  total_records |-> total, batch_size |-> size,
                  records_fetched |-> 0, batch |-> 0, yielded |-> 0]
    /\ UNCHANGED <<analyzerVars, observed, ingested, checkpointVars, classifierVars,
                   resolverVars, callVars>>

\* batch = self.fetch_batch(current_batch_size); an exception is logged and
\* breaks the loop
FetchBatch ==
    /\ stream.pc = "fetch"
    /\ LET remaining == stream.total_records - stream.records_fetched
           current_batch_size ==
               IF stream.batch_size < remaining THEN stream.batch_size ELSE remaining
       IN  \E answer \in fetch_batch(current_batch_size) :
               stream' = IF answer.raises THEN [stream EXCEPT !.pc = "done"]
                         ELSE [stream EXCEPT !.pc = "for", !.batch = answer.batch]
    /\ UNCHANGED <<analyzerVars, observed, ingested, checkpointVars, classifierVars,
                   resolverVars, callVars>>

\* yield record; records_fetched += 1, for the next record of the batch
YieldRecord ==
    /\ stream.pc = "for"
    /\ stream.batch > 0
    /\ stream' = [stream EXCEPT !.batch = @ - 1,
                                !.yielded = @ + 1,
                                !.records_fetched = @ + 1]
    /\ UNCHANGED <<analyzerVars, observed, ingested, checkpointVars, classifierVars,
                   resolverVars, callVars>>

\* the end of the for loop: the log line, the delay, and the next test of
\* the while loop
EndOfBatch ==
    /\ stream.pc = "for"
    /\ stream.batch = 0
    /\ stream' = [stream EXCEPT
                    !.pc = IF stream.records_fetched < stream.total_records
                           THEN "fetch" ELSE "done"]
    /\ UNCHANGED <<analyzerVars, observed, ingested, checkpointVars, classifierVars,
                   resolverVars, callVars>>

\* a consumer that iterates over the generator to its end: every step of the
\* generator that can be taken is taken
NextStream ==
    \/ \E total \in 0..MaxStreamRecords : \E size \in 1..MaxBatchSize :
          StreamRecords(total, size)
    \/ FetchBatch
    \/ YieldRecord
    \/ EndOfBatch
SpecStream == Init /\ [][NextStream]_vars /\ WF_vars(NextStream)

----------------------------------------------------------------------------
(* Properties of the profiler *)

Scalars(values) == {v \in values : ~isinstance(v, "dict") /\ ~isinstance(v, "list")}
\* the field names that were a key of an analyzed record
SeenFields == {f \in FieldNames : observed[f] # {}}
UniqueValues(f) == FnGet(field_values, f, {})

\* C1: for every field, the counts of its type histogram add up to its
\* occurrence count.
C1_TypeHistogramSumsToOccurrences ==
    \A f \in FieldNames :
        SumValues(FnGet(field_types, f, EmptyDict)) = FnGet(field_counts, f, 0)

\* a field seen three times or more, with values of two types or more
C1_Witness ==
    \E f \in FieldNames :
        /\ FnGet(field_counts, f, 0) >= 3
        /\ Len(FnGet(field_types, f, EmptyDict)) >= 2

\* C6 as claimed: the unique-value set never exceeds value_count_limit, and
\* once more than value_count_limit distinct scalar values were observed for a
\* field the set has exactly value_count_limit elements and the cardinality
\* reported is 1.0.
C6_CapAfterDistinctValues ==
    \A f \in FieldNames :
        /\ Cardinality(UniqueValues(f)) <= value_count_limit
        /\ Cardinality(Scalars(observed[f])) > value_count_limit
            => /\ Cardinality(UniqueValues(f)) = value_count_limit
               /\ get_cardinality(self, f).ret = One

\* C6 amended: the same, once scalar values with more than value_count_limit
\* distinct string forms str(value) were observed for the field.
C6_CapAfterDistinctStrings ==
    \A f \in FieldNames :
        /\ Cardinality(UniqueValues(f)) <= value_count_limit
        /\ Cardinality({str(v) : v \in Scalars(observed[f])}) > value_count_limit
            => /\ Cardinality(UniqueValues(f)) = value_count_limit
               /\ get_cardinality(self, f).ret = One

\* more distinct strings than the cap, and more occurrences than the cap
C6_Witness ==
    \E f \in FieldNames :
        /\ Cardinality({str(v) : v \in Scalars(observed[f])}) > value_count_limit
        /\ FnGet(field_counts, f, 0) > value_count_limit

\* C7: a field that is nested stays nested, and a field that is array-valued
\* stays array-valued, whatever is analyzed or queried next.
C7_StickyFlags ==
    [][\A f \in FieldNames :
          /\ is_nested(self, f) => is_nested(self', f)
          /\ is_array(self, f) => is_array(self', f)]_vars

\* one field held an object first and another type later; another field
\* held an array first and another type later
C7_Witness ==
    /\ \E f \in nested_fields :
          Len(field_types[f]) >= 2 /\ field_types[f][1][1] = "object"
    /\ \E f \in array_fields :
          Len(field_types[f]) >= 2 /\ field_types[f][1][1] = "array"

\* C8: a fresh DataAnalyzer that imports the exported state of a profiler
\* returns the same analysis record as that profiler for every field.
C8_CheckpointRoundTrip ==
    [][(Restart /\ snapshot = <<export_state(self)>>)
          => \A f \in FieldNames :
                get_field_analysis(self', f).ret = get_field_analysis(self, f).ret]_vars

\* what the queries return for a field that no record held
UnseenDefaults ==
    \A f \in FieldNames \ SeenFields :
        /\ get_field_frequency(self, f).ret = Zero
        /\ get_type_stability(self, f).ret = <<"unknown", Zero>>
        /\ get_cardinality(self, f).ret = Zero
        /\ get_dominant_pattern(self, f).ret = "none"

\* C9: a read query returns the neutral defaults for a field never observed
\* and leaves the state of the profiler unchanged.
C9_QueriesArePure ==
    [][Query => (UnseenDefaults /\ UNCHANGED analyzerVars)]_vars

\* C10: get_all_fields_analysis returns one entry for each field name that
\* was a key of an analyzed record and no other, in ascending order of name,
\* and total_fields_discovered is the number of those fields.
C10_SummaryListsSeenFields ==
    LET fields == get_all_fields_analysis(self).ret
    IN  /\ {fields[i].field_name : i \in 1..Len(fields)} = SeenFields
        /\ \A i \in 1..Len(fields) : \A j \in (i + 1)..Len(fields) :
              StrLess(fields[i].field_name, fields[j].field_name)
        /\ get_summary(self).ret.total_fields_discovered = Cardinality(SeenFields)

----------------------------------------------------------------------------
(* Properties of the resolver *)

\* C2: a raw name that was resolved once resolves to the same canonical name
\* in every later state.
C2_ResolverIdempotence ==
    \A r \in DOMAIN returned :
        normalize_field_name(normalizer, r).ret = returned[r]

\* a name bound by the fuzzy step, with three other names resolved as well
C2_Witness ==
    /\ <<"u", "s", "e", "r", "N", "a", "m", "e", "s">> \in DOMAIN returned
    /\ returned[<<"u", "s", "e", "r", "N", "a", "m", "e", "s">>]
          = <<"u", "s", "e", "r", "n", "a", "m", "e">>
    /\ Cardinality(DOMAIN returned) >= 4

----------------------------------------------------------------------------
(* Properties of the classifier *)

\* P(a, c) for every analysis a of the last call and the decision c held for
\* it (the last analysis of a name is the one that decides)
ForEachDecision(P(_, _)) ==
    \A i \in 1..Len(field_analyses) :
        LET a == field_analyses[i]
        IN  (\A j \in (i + 1)..Len(field_analyses) :
                field_analyses[j].field_name # a.field_name)
            => /\ DictHas(classifications, a.field_name)
               /\ P(a, DictGet(classifications, a.field_name, <<>>))
SomeDecision(P(_, _)) ==
    \E i \in 1..Len(field_analyses) :
        /\ DictHas(classifications, field_analyses[i].field_name)
        /\ P(field_analyses[i],
             DictGet(classifications, field_analyses[i].field_name, <<>>))

SqlTypes == {"string", "integer", "float", "boolean"}

\* C3: a field of mandatory_both_fields is placed in BOTH with confidence
\* 1.0, whatever its other metrics.
C3_MandatoryFirst ==
    LET P(a, c) == a.field_name \in mandatory_both_fields
                       => c.backend = BOTH /\ c.confidence = One
    IN  ForEachDecision(P)

\* a mandatory field that is nested, array-valued, sparse and type-unstable
C3_Witness ==
    LET P(a, c) == /\ a.field_name \in mandatory_both_fields
                   /\ a.is_nested /\ a.is_array
                   /\ RatLess(a.frequency, sparse_threshold(config))
                   /\ RatLess(a.type_stability, sql_type_stability_threshold(config))
                   /\ c.backend = BOTH
    IN  SomeDecision(P)

\* C4 as claimed: a field outside mandatory_both_fields is placed in SQL
\* exactly when it is not nested, not array-valued, at or above both SQL
\* thresholds and of a SQL type, then with confidence min(frequency,
\* type_stability); with another dominant type it is placed in DOCUMENT.
C4_SqlRule ==
    LET P(a, c) ==
            a.field_name \notin mandatory_both_fields
            => /\ c.backend = SQL
                   <=> /\ ~a.is_nested /\ ~a.is_array
                       /\ RatGeq(a.frequency, sql_frequency_threshold(config))
                       /\ RatGeq(a.type_stability, sql_type_stability_threshold(config))
                       /\ a.dominant_type \in SqlTypes
               /\ c.backend = SQL
                   => c.confidence = RatMin(a.frequency, a.type_stability)
               /\ a.dominant_type \notin SqlTypes => c.backend = MONGODB
    IN  ForEachDecision(P)

\* C4 amended: the same, with frequency >= sparse_threshold among the
\* conditions for SQL.
C4_SqlRuleNotSparse ==
    LET P(a, c) ==
            a.field_name \notin mandatory_both_fields
            => /\ c.backend = SQL
                   <=> /\ ~a.is_nested /\ ~a.is_array
                       /\ RatGeq(a.frequency, sparse_threshold(config))
                       /\ RatGeq(a.frequency, sql_frequency_threshold(config))
                       /\ RatGeq(a.type_stability, sql_type_stability_threshold(config))
                       /\ a.dominant_type \in SqlTypes
               /\ c.backend = SQL
                   => c.confidence = RatMin(a.frequency, a.type_stability)
               /\ a.dominant_type \notin SqlTypes => c.backend = MONGODB
    IN  ForEachDecision(P)

\* a field placed in SQL whose confidence is its frequency, below its stability
C4_Witness ==
    LET P(a, c) == /\ c.backend = SQL
                   /\ RatLess(a.frequency, a.type_stability)
                   /\ c.confidence = a.frequency
    IN  SomeDecision(P)

\* C5: a field outside mandatory_both_fields, not nested, not array-valued,
\* with sparse_threshold <= frequency < sql_frequency_threshold and a stable
\* type is placed in DOCUMENT with confidence 0.6.
C5_DefaultFallback ==
    LET P(a, c) ==
            (/\ a.field_name \notin mandatory_both_fields
             /\ ~a.is_nested /\ ~a.is_array
             /\ RatGeq(a.frequency, sparse_threshold(config))
             /\ RatLess(a.frequency, sql_frequency_threshold(config))
             /\ RatGeq(a.type_stability, sql_type_stability_threshold(config)))
            => c.backend = MONGODB /\ c.confidence = Rat(6, 10)
    IN  ForEachDecision(P)

\* frequency 0.5, stability 0.95, dominant type string, default thresholds
C5_Witness ==
    LET P(a, c) == /\ config = <<>>
                   /\ a.field_name \notin mandatory_both_fields
                   /\ ~a.is_nested /\ ~a.is_array
                   /\ a.frequency = Rat(1, 2)
                   /\ a.type_stability = Rat(95, 100)
                   /\ a.dominant_type = "string"
                   /\ c.backend = MONGODB
    IN  SomeDecision(P)

\* C11 as claimed: two names are similar exactly when their underscore-free
\* forms are identical, or one is a substring of the other and their lengths
\* differ by at most 3, for names of every length.
C11_SimilarAtEveryLength ==
    Len(compared) = 3 =>
        LET clean1 == StripUnderscores(compared[1])
            clean2 == StripUnderscores(compared[2])
        IN  compared[3] <=>
                \/ clean1 = clean2
                \/ /\ Contains(clean1, clean2) \/ Contains(clean2, clean1)
                   /\ Abs(Len(clean1) - Len(clean2)) <= 3

\* C11 amended: the substring case applies only when both underscore-free
\* forms are longer than 3 characters.
C11_SimilarAboveThreeCharacters ==
    Len(compared) = 3 =>
        LET clean1 == StripUnderscores(compared[1])
            clean2 == StripUnderscores(compared[2])
        IN  compared[3] <=>
                \/ clean1 = clean2
                \/ /\ Len(clean1) > 3 /\ Len(clean2) > 3
                   /\ Contains(clean1, clean2) \/ Contains(clean2, clean1)
                   /\ Abs(Len(clean1) - Len(clean2)) <= 3

\* "user_name" and "usernames" were compared and found similar: neither is
\* a substring of the other before the underscore is removed
C11_Witness ==
    compared = <<<<"u", "s", "e", "r", "_", "n", "a", "m", "e">>,
                 <<"u", "s", "e", "r", "n", "a", "m", "e", "s">>, TRUE>>

\* C12: no resolver call changes or removes an existing canonical_map
\* binding, takes a name out of a variations set, or makes the set of
\* canonical names lose a member.
C12_RegistryPermanence ==
    [][/\ \A i \in 1..Len(canonical_map) :
             /\ DictHas(canonical_map', canonical_map[i][1])
             /\ DictGet(canonical_map', canonical_map[i][1], <<>>) = canonical_map[i][2]
       /\ \A c \in DOMAIN variations :
             c \in DOMAIN variations' /\ variations[c] \subseteq variations'[c]
       /\ Range(DictValues(canonical_map)) \subseteq Range(DictValues(canonical_map'))
      ]_vars

\* the seeded canonical name username took the variant userNames by a fuzzy
\* match, and user_id became a canonical name with two variants of its own
C12_Witness ==
    /\ <<"u", "s", "e", "r", "N", "a", "m", "e", "s">>
          \in variations[<<"u", "s", "e", "r", "n", "a", "m", "e">>]
    /\ <<"u", "s", "e", "r", "_", "i", "d">> \in DOMAIN variations
    /\ Cardinality(variations[<<"u", "s", "e", "r", "_", "i", "d">>]) >= 2

\* C13: every raw name that was resolved has its lowercased form bound in
\* canonical_map to the canonical name returned for it, and every key of
\* variations is a value of canonical_map.
C13_RegistryInvariant ==
    /\ \A r \in DOMAIN returned :
          /\ DictHas(canonical_map, lower(r))
          /\ DictGet(canonical_map, lower(r), <<>>) = returned[r]
    /\ \A c \in DOMAIN variations : c \in Range(DictValues(canonical_map))

\* userId was resolved to the new canonical name user_id, which is bound
\* under the lowercased name userid and has become a key of variations
C13_Witness ==
    /\ <<"u", "s", "e", "r", "I", "d">> \in DOMAIN returned
    /\ returned[<<"u", "s", "e", "r", "I", "d">>] = <<"u", "s", "e", "r", "_", "i", "d">>
    /\ DictHas(canonical_map, <<"u", "s", "e", "r", "i", "d">>)
    /\ <<"u", "s", "e", "r", "_", "i", "d">> \in DOMAIN variations

C20_VariationsHoldEverySpelling ==
    \A r \in DOMAIN returned : r \in FnGet(variations, returned[r], {})

\* C15: a field outside mandatory_both_fields, not nested and not array-valued,
\* is placed in DOCUMENT with confidence 0.9 when its frequency is below
\* sparse_threshold, whatever its type stability; at or above sparse_threshold
\* with type stability below sql_type_stability_threshold it is placed in
\* DOCUMENT with confidence 0.85.
C15_SparseBeforeDrift ==
    LET P(a, c) ==
            (a.field_name \notin mandatory_both_fields /\ ~a.is_nested /\ ~a.is_array)
            => /\ RatLess(a.frequency, sparse_threshold(config))
                   => c.backend = MONGODB /\ c.confidence = Rat(9, 10)
               /\ (/\ RatGeq(a.frequency, sparse_threshold(config))
                   /\ RatLess(a.type_stability, sql_type_stability_threshold(config)))
                   => c.backend = MONGODB /\ c.confidence = Rat(85, 100)
    IN  ForEachDecision(P)

\* a flat field that is sparse and type-unstable at once, decided as sparse
C15_Witness ==
    LET P(a, c) == /\ a.field_name \notin mandatory_both_fields
                   /\ ~a.is_nested /\ ~a.is_array
                   /\ RatLess(a.frequency, sparse_threshold(config))
                   /\ RatLess(a.type_stability, sql_type_stability_threshold(config))
                   /\ c.backend = MONGODB /\ c.confidence = Rat(9, 10)
    IN  SomeDecision(P)

\* C16: a decision placed in SQL or BOTH has is_unique exactly when the
\* cardinality is at or above unique_cardinality_threshold and the frequency
\* at or above sql_frequency_threshold; a decision placed in DOCUMENT has
\* is_unique false; get_unique_fields lists, once each, the names of the
\* SQL and BOTH decisions with is_unique.
C16_UniqueFlag ==
    LET P(a, c) ==
            /\ c.backend \in {SQL, BOTH}
                => (c.is_unique
                        <=> /\ RatGeq(a.cardinality, unique_cardinality_threshold(config))
                            /\ RatGeq(a.frequency, sql_frequency_threshold(config)))
            /\ c.backend = MONGODB => ~c.is_unique
            /\ a.field_name \in Range(get_unique_fields(classifications))
                <=> (c.backend \in {SQL, BOTH} /\ c.is_unique)
        listed == get_unique_fields(classifications)
    IN  /\ ForEachDecision(P)
        /\ Range(listed) \subseteq DictKeys(classifications)
        /\ Cardinality(Range(listed)) = Len(listed)

\* a nested mandatory field placed in BOTH by rule 1 and unique, next to a
\* field placed in DOCUMENT whose cardinality and frequency are as high
C16_Witness ==
    LET P(a, c) == /\ c.backend = BOTH /\ a.is_nested /\ c.is_unique
                   /\ get_unique_fields(classifications) = <<a.field_name>>
        Q(a, c) == /\ c.backend = MONGODB
                   /\ RatGeq(a.cardinality, unique_cardinality_threshold(config))
                   /\ RatGeq(a.frequency, sql_frequency_threshold(config))
    IN  SomeDecision(P) /\ SomeDecision(Q)

\* C18: after classify_all_fields(L) the decisions held are those of the
\* field names of L, one per name and each the decision of the last analysis
\* of L with that name, whatever decisions were held before; get_summary
\* counts these decisions and get_unique_fields lists names of L only.
C18_DecisionSetSuperseded ==
    LET names == {field_analyses[i].field_name : i \in 1..Len(field_analyses)}
        P(a, c) == c = _classify_field(config, a)
        summary == classifier_summary(classifications)
    IN  /\ DictKeys(classifications) = names
        /\ Len(classifications) = Cardinality(names)
        /\ ForEachDecision(P)
        /\ summary.total_fields = Cardinality(names)
        /\ summary.sql_only + summary.mongodb_only + summary.both = Cardinality(names)
        /\ summary.unique_fields = Len(get_unique_fields(classifications))
        /\ Range(get_unique_fields(classifications)) \subseteq names

\* the last call replaced a decision set holding a unique field that is not
\* in its list
C18_Witness ==
    /\ classifications # EmptyDict
    /\ superseded \ DictKeys(classifications) # {}
    /\ get_unique_fields(classifications) # <<>>

----------------------------------------------------------------------------
(* Properties of the pipeline *)

\* C14: a field outside mandatory_both_fields that is nested or array-valued
\* is placed in DOCUMENT with confidence 1.0, whatever its frequency and
\* type stability; once the ingested records are classified, a raw key in
\* snake case that held an object in every record holding it is a field of
\* its own name with is_nested, placed in DOCUMENT with confidence 1.0.
C14_NestedOrArrayIsDocument ==
    LET P(a, c) ==
            (a.field_name \notin mandatory_both_fields /\ (a.is_nested \/ a.is_array))
            => c.backend = MONGODB /\ c.confidence = One
        Q(a, c) ==
            (/\ a.field_name = metadata
             /\ Holding(metadata) = HoldingValue(metadata, PyDict))
            => /\ a.frequency = Rat(Holding(metadata), BagCardinality(ingested))
               /\ a.is_nested /\ c.is_nested
               /\ c.backend = MONGODB /\ c.confidence = One
    IN  /\ ForEachDecision(P)
        /\ ForEachDecision(Q)
        /\ (field_analyses # <<>> /\ Holding(metadata) > 0)
            => DictHas(classifications, metadata)

\* a key held by one record in ten, each time with an object: nested, below
\* the sparse threshold, placed in DOCUMENT with confidence 1.0
C14_Witness ==
    LET P(a, c) == /\ a.field_name = metadata
                   /\ Holding(metadata) = HoldingValue(metadata, PyDict)
                   /\ Holding(metadata) * 10 = BagCardinality(ingested)
                   /\ a.frequency = Rat(1, 10)
                   /\ RatLess(a.frequency, sparse_threshold(config))
                   /\ a.is_nested
                   /\ c.backend = MONGODB /\ c.confidence = One
    IN  SomeDecision(P)

\* the three raw keys are each held by a record, together by 95% of the records
Covering95 ==
    /\ \A k \in IpSpellings : Holding(k) > 0
    /\ 20 * (Holding(<<"I", "P">>) + Holding(ip_address)
                + Holding(<<"I", "p", "A", "d", "d", "r", "e", "s", "s">>))
           = 19 * BagCardinality(ingested)

\* C17: when the raw keys IP, ip_address and IpAddress, with dotted-quad
\* strings, are held by disjoint subsets covering 95% of the ingested
\* records, the three resolve to ip_address, whose analysis has frequency
\* 0.95, dominant type string with type stability 1.0 and dominant pattern
\* ip_address, and whose decision under the default thresholds is SQL.
C17_SynonymsEndToEnd ==
    (Covering95 /\ config = <<>> /\ field_analyses # <<>>)
    => /\ \A k \in IpSpellings : k \in DOMAIN returned /\ returned[k] = ip_address
       /\ \E i \in 1..Len(field_analyses) :
              LET a == field_analyses[i]
              IN  /\ a.field_name = ip_address
                  /\ a = get_field_analysis(self, ip_address).ret
                  /\ a.frequency = Rat(19, 20)
                  /\ a.dominant_type = "string"
                  /\ a.type_stability = One
                  /\ a.dominant_pattern = "ip_address"
       /\ DictHas(classifications, ip_address)
       /\ DictGet(classifications, ip_address, <<>>).backend = SQL

\* twenty records, nineteen of them under the three spellings, classified
C17_Witness ==
    /\ Covering95 /\ config = <<>>
    /\ BagCardinality(ingested) = 20
    /\ DictHas(classifications, ip_address)
    /\ DictGet(classifications, ip_address, <<>>).backend = SQL
    /\ DictGet(classifications, ip_address, <<>>).frequency = Rat(19, 20)

----------------------------------------------------------------------------
(* Further properties of the profiler *)

\* C21: after any analyze_record and import_state calls, get_cardinality of
\* a field is 0.0 when the field has no occurrences, 1.0 when its set of
\* unique values has reached value_count_limit, and otherwise
\* min(1.0, unique values / occurrences); it lies between 0.0 and 1.0.
C21_CardinalityValue ==
    \A f \in FieldNames :
        LET unique_count == Cardinality(FnGet(field_values, f, {}))
            total_count == FnGet(field_counts, f, 0)
            cardinality == get_cardinality(self, f).ret
        IN  /\ total_count = 0 => cardinality = Zero
            /\ (total_count > 0 /\ unique_count >= value_count_limit)
                => cardinality = One
            /\ (total_count > 0 /\ unique_count < value_count_limit)
                => cardinality = RatMin(One, Rat(unique_count, total_count))
            /\ RatGeq(cardinality, Zero) /\ RatGeq(One, cardinality)

----------------------------------------------------------------------------
(* Further properties of the resolver *)

\* C22: the canonical name returned for a raw name resolves to itself,
\* whatever was resolved before; the camelCase spelling tStamp of the seeded
\* synonym t_stamp has the canonical name that t_stamp has.
C22_CanonicalNamesAreFixedPoints ==
    /\ \A x \in DOMAIN returned :
           normalize_field_name(normalizer, returned[x]).ret = returned[x]
    /\ <<"t", "S", "t", "a", "m", "p">> \in DOMAIN returned
        => returned[<<"t", "S", "t", "a", "m", "p">>]
              = normalize_field_name(normalizer, <<"t", "_", "s", "t", "a", "m", "p">>).ret

\* the raw name whose lowercased form is key was bound by n before the one
\* whose lowercased form is other
BoundBefore(n, key, other) ==
    DictIdx(n.canonical_map, key) < DictIdx(n.canonical_map, other)

\* C23: two fresh normalizers that resolve the same raw names userId,
\* userIds and userIdx, userId last, the first after userIds and the second
\* after userIdx, end with different canonical mappings: userId is bound to
\* user_ids by the first and to user_idx by the second.
C23_OrderSensitive ==
    LET userid == <<"u", "s", "e", "r", "i", "d">>
        userids == <<"u", "s", "e", "r", "i", "d", "s">>
        useridx == <<"u", "s", "e", "r", "i", "d", "x">>
    IN  (/\ ~replica.aliased
         /\ DOMAIN returned = ReplicaNames
         /\ DOMAIN replica.returned = ReplicaNames
         /\ BoundBefore(normalizer, userids, useridx)
         /\ BoundBefore(normalizer, useridx, userid)
         /\ BoundBefore(replica_normalizer, useridx, userids)
         /\ BoundBefore(replica_normalizer, userids, userid))
        => /\ DictGet(canonical_map, userid, <<>>)
                # DictGet(replica.canonical_map, userid, <<>>)
           /\ returned[<<"u", "s", "e", "r", "I", "d">>]
                # replica.returned[<<"u", "s", "e", "r", "I", "d">>]
           /\ Range(canonical_map) # Range(replica.canonical_map)

\* both normalizers resolved the three names, in the two orders, and hold
\* userId under user_ids and under user_idx
C23_Witness ==
    /\ ~replica.aliased
    /\ DOMAIN returned = ReplicaNames
    /\ DOMAIN replica.returned = ReplicaNames
    /\ BoundBefore(normalizer, <<"u", "s", "e", "r", "i", "d", "s">>,
                               <<"u", "s", "e", "r", "i", "d", "x">>)
    /\ BoundBefore(replica_normalizer, <<"u", "s", "e", "r", "i", "d", "x">>,
                                       <<"u", "s", "e", "r", "i", "d", "s">>)
    /\ returned[<<"u", "s", "e", "r", "I", "d">>]
           = <<"u", "s", "e", "r", "_", "i", "d", "s">>
    /\ replica.returned[<<"u", "s", "e", "r", "I", "d">>]
           = <<"u", "s", "e", "r", "_", "i", "d", "x">>

\* C29: the value export_mappings returned keeps the content it had when it
\* was returned, whatever the normalizer resolves afterwards; and once the
\* second normalizer has imported it, the calls of normalize_field_name on
\* the second normalizer leave canonical_map and variations of the first
\* unchanged.
C29_SnapshotsAreIndependent ==
    /\ [](exported # <<>>
            => /\ canonical_map = exported[2].canonical_map
               /\ [k \in DOMAIN exported[1].variations |->
                       set(exported[1].variations[k])] = exported[2].variations)
    /\ [][(\E field_name \in ReplicaNames : ReplicaNormalizeFieldName(field_name))
              => UNCHANGED <<canonical_map, variations>>]_vars

\* C24: the name mapping of a normalize_record call has one entry per raw
\* key of the record, the canonical name normalize_field_name gives for the
\* key; the renamed record has one entry per canonical name of the mapping,
\* holding the value of the last key of the record with that canonical
\* name, and so no more entries than the record.
C24_RecordRenaming ==
    renamed # <<>>
    => LET record == renamed[1]
           normalized == renamed[2]
           mapping == renamed[3]
           keys == {record[i][1] : i \in 1..Len(record)}
           names == {DictGet(mapping, k, <<>>) : k \in keys}
           last(c) == CHOOSE i \in 1..Len(record) :
                         /\ DictGet(mapping, record[i][1], <<>>) = c
                         /\ \A j \in (i + 1)..Len(record) :
                                DictGet(mapping, record[j][1], <<>>) # c
       IN  /\ DictKeys(mapping) = keys
           /\ Len(mapping) = Cardinality(keys)
           /\ \A k \in keys :
                  DictGet(mapping, k, <<>>) = normalize_field_name(normalizer, k).ret
           /\ DictKeys(normalized) = names
           /\ Len(normalized) = Cardinality(names)
           /\ \A c \in names : DictGet(normalized, c, <<>>) = record[last(c)][2]
           /\ Len(normalized) <= Len(record)

\* a record whose two keys resolved to one canonical name: the renamed
\* record has the one entry, with the value of the second key
C24_Witness ==
    /\ renamed # <<>>
    /\ Len(renamed[1]) = 2
    /\ Len(renamed[2]) = 1
    /\ renamed[2][1][2] = renamed[1][2][2]
    /\ renamed[2][1][2] # renamed[1][1][2]

----------------------------------------------------------------------------
(* Properties of the profiler's histograms *)

\* the key of the first item of histogram hist, in insertion order, among
\* those with the largest count
FirstInserted(hist) ==
    LET largest == {i \in 1..Len(hist) : \A j \in 1..Len(hist) : hist[j][2] <= hist[i][2]}
    IN  hist[CHOOSE i \in largest : \A j \in largest : i <= j][1]

\* C25: the dominant type get_type_stability returns is, among the type tags
\* with the highest count, the one inserted first into the histogram of the
\* field; get_dominant_pattern returns the pattern inserted first among those
\* with the highest count, and 'none' when the field has no pattern counts.
C25_TiesGoToFirstInserted ==
    \A f \in FieldNames :
        /\ FnGet(field_types, f, EmptyDict) # EmptyDict
            => get_type_stability(self, f).ret[1] = FirstInserted(field_types[f])
        /\ get_dominant_pattern(self, f).ret
              = IF FnGet(pattern_matches, f, EmptyDict) = EmptyDict THEN "none"
                ELSE FirstInserted(pattern_matches[f])

\* string and integer tie at 2 with string inserted first, url and
\* ip_address tie at 1 with url inserted first
C25_Witness ==
    /\ FnGet(field_types, <<"a">>, EmptyDict) = <<<<"string", 2>>, <<"integer", 2>>>>
    /\ FnGet(pattern_matches, <<"a">>, EmptyDict) = <<<<"url", 1>>, <<"ip_address", 1>>>>
    /\ get_type_stability(self, <<"a">>).ret[1] = "string"
    /\ get_dominant_pattern(self, <<"a">>).ret = "url"

\* the stored profile of field f
StoredProfile(f) ==
    <<FnGet(field_counts, f, 0), FnGet(field_types, f, EmptyDict),
      FnGet(field_values, f, {}), f \in nested_fields, f \in array_fields,
      FnGet(pattern_matches, f, EmptyDict)>>
\* the count of type tag tag in the histogram of field f
TypeCount(f, tag) == DictGet(FnGet(field_types, f, EmptyDict), tag, 0)

\* C26: an analyze_record call that observes an object or an array for field
\* f adds 1 to the occurrences of f and to that type count alone, sets the
\* flag of that shape, and leaves the unique values and the pattern counts
\* of f as they were; the stored profile of a field that is not a key of the
\* record is unchanged.
C26_ObjectAndArrayFrame ==
    [][total_records' = total_records + 1
       => \A f \in FieldNames :
            LET Observed(tag) == TypeCount(f, tag)' = TypeCount(f, tag) + 1
                Shape(tag) ==
                    /\ FnGet(field_counts, f, 0)' = FnGet(field_counts, f, 0) + 1
                    /\ \A other \in DictKeys(FnGet(field_types, f, EmptyDict)') \ {tag} :
                           TypeCount(f, other)' = TypeCount(f, other)
                    /\ FnGet(field_values, f, {})' = FnGet(field_values, f, {})
                    /\ FnGet(pattern_matches, f, EmptyDict)'
                          = FnGet(pattern_matches, f, EmptyDict)
            IN  /\ Observed("object")
                    => /\ Shape("object")
                       /\ f \in nested_fields'
                       /\ f \in array_fields' <=> f \in array_fields
                /\ Observed("array")
                    => /\ Shape("array")
                       /\ f \in array_fields'
                       /\ f \in nested_fields' <=> f \in nested_fields
                /\ FnGet(field_counts, f, 0)' = FnGet(field_counts, f, 0)
                    => StoredProfile(f)' = StoredProfile(f)]_vars

\* field "a" held an object after a scalar and field "B" an array: the
\* unique values of "a" are those of the scalar, "B" has none
C26_Witness ==
    /\ PyDict \in observed[<<"a">>]
    /\ PyList \in observed[<<"B">>]
    /\ FnGet(field_counts, <<"a">>, 0) = 2
    /\ TypeCount(<<"a">>, "object") = 1
    /\ Cardinality(FnGet(field_values, <<"a">>, {})) = 1
    /\ FnGet(field_values, <<"B">>, {}) = {}
    /\ <<"a">> \in nested_fields /\ <<"B">> \in array_fields

\* C27: the occurrence count of every field is at most total_records and
\* its frequency lies between 0.0 and 1.0; an analyze_record call with a
\* record without keys adds 1 to total_records and changes nothing else.
C27_FrequencyBound ==
    /\ [](\A f \in FieldNames :
             /\ FnGet(field_counts, f, 0) <= total_records
             /\ RatGeq(get_field_frequency(self, f).ret, Zero)
             /\ RatGeq(One, get_field_frequency(self, f).ret))
    /\ [][AnalyzeRecord(<<>>)
             => /\ total_records' = total_records + 1
                /\ UNCHANGED <<field_counts, field_types, field_values, nested_fields,
                               array_fields, pattern_matches>>]_vars

\* two records, one of them without keys: field "a" has frequency 0.5
C27_Witness ==
    /\ total_records = 2
    /\ observed[<<"a">>] # {} /\ observed[<<"B">>] = {}
    /\ FnGet(field_counts, <<"a">>, 0) = 1
    /\ get_field_frequency(self, <<"a">>).ret = Rat(1, 2)

\* C28: every raw name listed in variations under a canonical name is bound
\* to that canonical name by canonical_map, under its lowercased form.
C28_VariationsAreBound ==
    \A c \in DOMAIN variations :
        \A v \in variations[c] :
            /\ DictHas(canonical_map, lower(v))
            /\ DictGet(canonical_map, lower(v), <<>>) = c

\* userIds, resolved by the fuzzy step, is listed under user_id
C28_Witness ==
    /\ <<"u", "s", "e", "r", "I", "d", "s">>
           \in FnGet(variations, <<"u", "s", "e", "r", "_", "i", "d">>, {})
    /\ DictGet(canonical_map, <<"u", "s", "e", "r", "i", "d", "s">>, <<>>)
           = <<"u", "s", "e", "r", "_", "i", "d">>

\* the occurrence count the returned analyses show for field f
SeenOccurrences(f) ==
    IF \E e \in Range(view.analyses) : e.analysis.field_name = f
    THEN (CHOOSE e \in Range(view.analyses) : e.analysis.field_name = f)
             .analysis.total_occurrences
    ELSE 0
\* how many of the first k records analyze_record was entered with hold field f
Containing(k, f) == Cardinality({i \in 1..k : f \in accepted[i]})
\* the call returned, and a total_records it read counts a record with a
\* field that the occurrence counts it returned do not count
TornView ==
    /\ view.entered
    /\ view.todo = <<>>
    /\ \E e \in Range(view.analyses) :
        \E f \in FieldNames : SeenOccurrences(f) < Containing(e.total_records, f)

\* C30: a get_all_fields_analysis call that returns a view in which
\* total_records counts a record whose fields are not all in the occurrence
\* counts ran while an analyze_record call was between its entry and the end
\* of its loop; a call that ran with no analyze_record step in between
\* returns no such view.
C30_TornOnlyWhenInterleaved == TornView => view.overlapped

\* a torn view was returned
C30_Witness == TornView /\ view.overlapped

\* C31: stream_records yields at most total_records records, whatever the
\* lengths of the batches fetch_batch returns.
C31_YieldsAtMostTotal == stream.yielded <= stream.total_records

\* C32: a stream_records call whose fetch_batch calls all return or raise
\* finishes: the generator is exhausted after finitely many fetches.
C32_StreamTerminates == (stream.pc # "idle") ~> (stream.pc = "done")

====
